---------------------------- MODULE Spec2Model ----------------------------
(***************************************************************************)
(* Model of the response-to-UI binding engine of flow-action-gateway:      *)
(*   src/src/ui/auto_data_binder.py      (bind_data and its helpers)       *)
(*   src/src/ui/data_bindings/*.py       (router and provider overrides)   *)
(*   src/src/ui/components/*.py          (component schemas)               *)
(*                                                                         *)
(* Python values are tagged records:                                       *)
(*   None   [t |-> "null"]            bool  [t |-> "bool",  b |-> TRUE]    *)
(*   int    [t |-> "int", n |-> 5]    float [t |-> "float", i |-> 1, f |-> "5"] *)
(*   str    [t |-> "str", s |-> "ab"] list  [t |-> "list",  l |-> <<..>>]  *)
(*   dict   [t |-> "dict", d |-> << [k |-> "key", v |-> value], .. >>]     *)
(*          (a sequence of entries: Python dicts keep insertion order)     *)
(*   an MCP TextContent object  [t |-> "block", text |-> "..."]            *)
(* A Python str is a TLA+ string; Len, \o and SubSeq act on its characters.*)
(* A raised exception is the record [exc |-> <class>, msg |-> <str(e)>].   *)
(* Icons are named, not drawn: "clipboard", "page", "check", "warning",    *)
(* "package", "magnifier", "person", "warning_emoji".                      *)
(***************************************************************************)
EXTENDS Integers, Sequences, FiniteSets, TLC

VARIABLES
    data,         \* the RawResult the engine is invoked on
    tool_name,    \* route_to_components' second argument (None or a str)
    op,           \* "idle" between invocations, else the function invoked
    parsed_data,  \* bind_data's local after the unwrapping step
    result,       \* what the invocation returned (or the exception it raised)
    prior,        \* history: what bind_data's first completed invocation on data returned
    frames,       \* the call frames of invocations that run concurrently, one per thread
    sessions,         \* MCPGateway.sessions: server name -> the session, named by the task that opened it
    stdio_tasks,      \* MCPGateway.stdio_tasks: server name -> background task
    connection_ready, \* MCPGateway.connection_ready: server name -> event
    tools_cache,      \* MCPGateway.tools_cache: server name -> the tools it listed
    tool_to_server,   \* MCPGateway.tool_to_server: tool name -> server name
    tasks,            \* every _maintain_connection task created so far, with the connect_server call that made it
    events,           \* the asyncio.Event objects that are set
    close_all,        \* the close_all call: where it stands and the tasks it gathers
    execution,        \* the execute_tool call: its arguments, where it stands, what it returned
    enabled,          \* settings screen: server_config["enabled"] of the servers with credentials
    mic_is_recording,        \* MicrophoneDisplay.is_recording
    capture_is_recording,    \* AudioCapture.is_recording
    streams,                 \* the audio streams AudioCapture has opened and not closed
    v_key_held,              \* WisprActionsApp.v_key_held
    timers,                  \* every timer set_timer has made, and where it stands
    release_timer,           \* WisprActionsApp.release_timer: a timer, or 0 for None
    workers,                 \* every process_audio worker run_worker has made, and where it stands
    current_processing_task  \* WisprActionsApp.current_processing_task: a worker, or 0 for None

binder_vars == <<data, tool_name, op, parsed_data, result, prior>>

gateway_vars ==
    <<sessions, stdio_tasks, connection_ready, tools_cache, tool_to_server, tasks, events,
      close_all, execution, enabled>>

app_vars ==
    <<mic_is_recording, capture_is_recording, streams, v_key_held, timers, release_timer,
      workers, current_processing_task>>

\* the state of the parts of the program an invocation of the binder on
\* its own does not touch
others == <<frames, gateway_vars, app_vars>>

vars == <<binder_vars, others>>

---------------------------------------------------------------------------
(* Python values *)

None == [t |-> "null"]
PyBool(b) == [t |-> "bool", b |-> b]
PyInt(n) == [t |-> "int", n |-> n]
PyFloat(i, f) == [t |-> "float", i |-> i, f |-> f]
PyStr(s) == [t |-> "str", s |-> s]
PyList(l) == [t |-> "list", l |-> l]
PyDict(d) == [t |-> "dict", d |-> d]
\* a variable that holds nothing yet
Unset == [t |-> "unset"]
TextContent(text) == [t |-> "block", text |-> text]
Entry(k, v) == [k |-> k, v |-> v]

Raise(exc, msg) == [exc |-> exc, msg |-> msg]
IsRaise(x) == "exc" \in DOMAIN x

---------------------------------------------------------------------------
(* Python str operations *)

Min(a, b) == IF a <= b THEN a ELSE b
Max(a, b) == IF a >= b THEN a ELSE b

CharAt(s, i) == IF i < 1 \/ i > Len(s) THEN "" ELSE SubSeq(s, i, i)
\* s[a-1:b] for 1 <= a, clamped like a Python slice
Slice(s, a, b) ==
    IF Max(a, 1) > Min(b, Len(s)) THEN "" ELSE SubSeq(s, Max(a, 1), Min(b, Len(s)))
\* s[:n]
Prefix(s, n) == Slice(s, 1, n)
\* s[n:]
Suffix(s, n) == Slice(s, n + 1, Len(s))

startswith(s, p) == Len(s) >= Len(p) /\ Prefix(s, Len(p)) = p
endswith(s, p) == Len(s) >= Len(p) /\ Suffix(s, Len(s) - Len(p)) = p
\* p in s
contains(s, p) == \E i \in 1..(Len(s) - Len(p) + 1) : Slice(s, i, i + Len(p) - 1) = p
\* s.find(p, from) as a 1-based index, 0 when absent
find(s, p, from) ==
    LET hits == {i \in from..(Len(s) - Len(p) + 1) : Slice(s, i, i + Len(p) - 1) = p}
    IN  IF hits = {} THEN 0 ELSE CHOOSE i \in hits : \A j \in hits : i <= j

UPPER == "ABCDEFGHIJKLMNOPQRSTUVWXYZ"
LOWER == "abcdefghijklmnopqrstuvwxyz"
DIGITS == "0123456789"
IndexIn(alphabet, c) == find(alphabet, c, 1)
\* the characters of an alphabet, and the map from one alphabet to another
Chars(alphabet) == {CharAt(alphabet, k) : k \in 1..Len(alphabet)}
CharMap(from, to) == [c \in Chars(from) |-> CharAt(to, IndexIn(from, c))]
ToLower == CharMap(UPPER, LOWER)
ToUpper == CharMap(LOWER, UPPER)
Letters == Chars(UPPER) \cup Chars(LOWER)
Digits == Chars(DIGITS)
IsLetter(c) == c \in Letters
IsDigit(c) == c \in Digits
IsSpace(c) == c \in {" ", "\n", "\t", "\r", "\f"}
lower_char(c) == IF c \in DOMAIN ToLower THEN ToLower[c] ELSE c
upper_char(c) == IF c \in DOMAIN ToUpper THEN ToUpper[c] ELSE c

RECURSIVE MapChars(_, _, _)
\* the characters of s from position i on, each through lower_char or upper_char
MapChars(s, i, toLower) ==
    IF i > Len(s) THEN ""
    ELSE IF i = Len(s)
         THEN (IF toLower THEN lower_char(CharAt(s, i)) ELSE upper_char(CharAt(s, i)))
    ELSE LET mid == (i + Len(s)) \div 2
         IN  MapChars(Prefix(s, mid), i, toLower) \o MapChars(s, mid + 1, toLower)

\* str.lower()
lower(s) == MapChars(s, 1, TRUE)
\* str.capitalize()
capitalize(s) == IF s = "" THEN "" ELSE upper_char(CharAt(s, 1)) \o MapChars(s, 2, TRUE)

RECURSIVE replace_char(_, _, _)
\* str.replace(old, new) for a one-character old
replace_char(s, old, new) ==
    IF Len(s) <= 1 THEN (IF s = old THEN new ELSE s)
    ELSE LET mid == Len(s) \div 2
         IN  replace_char(Prefix(s, mid), old, new) \o replace_char(Suffix(s, mid), old, new)

RECURSIVE split(_)
\* str.split(): the maximal runs of non-whitespace, in order
split(s) ==
    IF s = "" THEN <<>>
    ELSE IF IsSpace(CharAt(s, 1)) THEN split(Suffix(s, 1))
    ELSE LET stops == {i \in 1..Len(s) : IsSpace(CharAt(s, i))}
             stop == IF stops = {} THEN Len(s) + 1
                     ELSE CHOOSE i \in stops : \A j \in stops : i <= j
         IN  <<Prefix(s, stop - 1)>> \o split(Suffix(s, stop - 1))

RECURSIVE join(_, _)
\* sep.join(parts)
join(sep, parts) ==
    IF Len(parts) = 0 THEN ""
    ELSE IF Len(parts) = 1 THEN parts[1]
    ELSE LET mid == Len(parts) \div 2
         IN  join(sep, SubSeq(parts, 1, mid)) \o sep
                 \o join(sep, SubSeq(parts, mid + 1, Len(parts)))

RECURSIVE int_digits(_)
int_digits(n) ==
    IF n < 10 THEN CharAt(DIGITS, n + 1)
    ELSE int_digits(n \div 10) \o CharAt(DIGITS, (n % 10) + 1)
\* str(n) for an int
int_str(n) == IF n < 0 THEN "-" \o int_digits(-n) ELSE int_digits(n)

RECURSIVE group_digits(_)
group_digits(n) ==
    IF n < 1000 THEN int_digits(n)
    ELSE LET r == n % 1000
             pad == IF r < 10 THEN "00" ELSE IF r < 100 THEN "0" ELSE ""
         IN  group_digits(n \div 1000) \o "," \o pad \o int_digits(r)
\* f"{n:,}" for an int
int_commas(n) == IF n < 0 THEN "-" \o group_digits(-n) ELSE group_digits(n)
\* str(x) and f"{x:,}" for a float i.f (a non-negative float with a short fraction)
float_str(x) == int_digits(x.i) \o "." \o x.f
float_commas(x) == group_digits(x.i) \o "." \o x.f

---------------------------------------------------------------------------
(* str(), repr() and json.dumps() of Python values.  Strings are taken over
   printable ASCII plus \n, \t, \r; TextContent objects are not rendered
   (a RawResult is either all content blocks or a bare JSON value). *)

RECURSIVE escape(_, _)
\* each character of s, backslash-escaped where esc (a function on characters) says so
escape(s, esc) ==
    IF Len(s) <= 1 THEN (IF s \in DOMAIN esc THEN esc[s] ELSE s)
    ELSE LET mid == Len(s) \div 2
         IN  escape(Prefix(s, mid), esc) \o escape(Suffix(s, mid), esc)

ReprEscapes(quote) ==
    [c \in {"\\", "\n", "\t", "\r", quote} |->
        CASE c = "\\" -> "\\\\" [] c = "\n" -> "\\n" [] c = "\t" -> "\\t"
          [] c = "\r" -> "\\r" [] OTHER -> "\\" \o quote]
\* repr(s) of a str: single quotes unless s holds ' and no "
str_repr(s) ==
    IF contains(s, "'") /\ ~contains(s, "\"")
    THEN "\"" \o escape(s, ReprEscapes("\"")) \o "\""
    ELSE "'" \o escape(s, ReprEscapes("'")) \o "'"

RECURSIVE py_repr(_)
RECURSIVE repr_items(_), repr_entries(_)
repr_items(l) == [i \in 1..Len(l) |-> py_repr(l[i])]
repr_entries(d) == [i \in 1..Len(d) |-> str_repr(d[i].k) \o ": " \o py_repr(d[i].v)]
py_repr(v) ==
    CASE v.t = "null"  -> "None"
      [] v.t = "bool"  -> IF v.b THEN "True" ELSE "False"
      [] v.t = "int"   -> int_str(v.n)
      [] v.t = "float" -> float_str(v)
      [] v.t = "str"   -> str_repr(v.s)
      [] v.t = "list"  -> "[" \o join(", ", repr_items(v.l)) \o "]"
      [] v.t = "dict"  -> "{" \o join(", ", repr_entries(v.d)) \o "}"
\* str(v)
py_str(v) == IF v.t = "str" THEN v.s ELSE py_repr(v)

\* bool(v): Python truthiness
truthy(v) ==
    CASE v.t = "null"  -> FALSE
      [] v.t = "bool"  -> v.b
      [] v.t = "int"   -> v.n # 0
      [] v.t = "float" -> ~(v.i = 0 /\ v.f = "0")
      [] v.t = "str"   -> v.s # ""
      [] v.t = "list"  -> Len(v.l) > 0
      [] v.t = "dict"  -> Len(v.d) > 0
      [] OTHER         -> TRUE

JsonEscapes ==
    [c \in {"\\", "\"", "\n", "\t", "\r", "\f"} |->
        CASE c = "\\" -> "\\\\" [] c = "\"" -> "\\\"" [] c = "\n" -> "\\n"
          [] c = "\t" -> "\\t" [] c = "\r" -> "\\r" [] OTHER -> "\\f"]
json_string(s) == "\"" \o escape(s, JsonEscapes) \o "\""

RECURSIVE spaces(_)
spaces(n) == IF n <= 0 THEN "" ELSE " " \o spaces(n - 1)

RECURSIVE json_dumps_at(_, _, _)
RECURSIVE dumps_items(_, _, _), dumps_entries(_, _, _)
dumps_items(l, indent, level) == [i \in 1..Len(l) |-> json_dumps_at(l[i], indent, level)]
dumps_entries(d, indent, level) ==
    [i \in 1..Len(d) |-> json_string(d[i].k) \o ": " \o json_dumps_at(d[i].v, indent, level)]
\* json.dumps(v, indent=indent) at nesting depth level; indent = -1 stands for indent=None
json_dumps_at(v, indent, level) ==
    LET open(parts, l, r) ==
            IF Len(parts) = 0 THEN l \o r
            ELSE IF indent < 0 THEN l \o join(", ", parts) \o r
            ELSE l \o "\n" \o spaces(indent * (level + 1))
                   \o join(",\n" \o spaces(indent * (level + 1)), parts)
                   \o "\n" \o spaces(indent * level) \o r
    IN  CASE v.t = "null"  -> "null"
          [] v.t = "bool"  -> IF v.b THEN "true" ELSE "false"
          [] v.t = "int"   -> int_str(v.n)
          [] v.t = "float" -> float_str(v)
          [] v.t = "str"   -> json_string(v.s)
          [] v.t = "list"  -> open(dumps_items(v.l, indent, level + 1), "[", "]")
          [] v.t = "dict"  -> open(dumps_entries(v.d, indent, level + 1), "{", "}")
\* json.dumps(v, default=str) and json.dumps(v, indent=2, default=str)
json_dumps(v) == json_dumps_at(v, -1, 0)
json_dumps_indent2(v) == json_dumps_at(v, 2, 0)

---------------------------------------------------------------------------
(* json.loads(): the standard library's decoder (json/decoder.py, json/scanner.py),
   over the JSON this model's inputs use: null, true, false, integers,
   non-negative decimals without exponent, strings with the escapes
   \" \\ \/ \n \t \r \f, arrays and objects.  A position i is the 1-based
   index of the next character; the decoder's 0-based pos is i - 1.
   A decode yields [ok |-> TRUE, v |-> value, end |-> i] or
   [ok |-> FALSE, msg |-> message, pos |-> pos]. *)

Decoded(v, i) == [ok |-> TRUE, v |-> v, end |-> i]
DecodeFail(msg, pos) == [ok |-> FALSE, msg |-> msg, pos |-> pos]

\* str(JSONDecodeError(msg, doc, pos)): "msg: line L column C (char pos)"
JSONDecodeError(msg, doc, pos) ==
    LET nls == {i \in 1..Min(pos, Len(doc)) : CharAt(doc, i) = "\n"}
        last == IF nls = {} THEN 0 ELSE CHOOSE i \in nls : \A j \in nls : j <= i
        lineno == Cardinality(nls) + 1
        colno == IF nls = {} THEN pos + 1 ELSE pos - (last - 1)
    IN  Raise("JSONDecodeError",
              msg \o ": line " \o int_str(lineno) \o " column " \o int_str(colno)
                  \o " (char " \o int_str(pos) \o ")")

RECURSIVE first_at(_, _, _, _)
\* the first position j >= i of s with (s[j] in chars) = inside, Len(s) + 1 when none
first_at(s, i, chars, inside) ==
    LET hi == Min(i + 15, Len(s))
        hits == {j \in i..hi : (CharAt(s, j) \in chars) = inside}
    IN  IF hits # {} THEN CHOOSE j \in hits : \A k \in hits : j <= k
        ELSE IF hi >= Len(s) THEN Len(s) + 1
        ELSE first_at(s, hi + 1, chars, inside)

\* WHITESPACE.match(s, i).end()
skip_ws(s, i) == Max(i, first_at(s, i, {" ", "\t", "\n", "\r"}, FALSE))

RECURSIVE digits_int(_)
\* int(s) for a run of digits
digits_int(s) ==
    IF s = "" THEN 0
    ELSE digits_int(Prefix(s, Len(s) - 1)) * 10 + (IndexIn(DIGITS, CharAt(s, Len(s))) - 1)

\* the end (exclusive) of the run of digits that starts at i
digits_end(s, i) == Max(i, first_at(s, i, Digits, FALSE))

RECURSIVE strip_zeros(_)
\* the fraction digits as repr() of the float shows them
strip_zeros(f) ==
    IF Len(f) > 1 /\ CharAt(f, Len(f)) = "0" THEN strip_zeros(Prefix(f, Len(f) - 1)) ELSE f

\* NUMBER_RE at i: (-?(?:0|[1-9]\d*))(\.\d+)?
scan_number(s, i) ==
    LET neg == CharAt(s, i) = "-"
        Number(a, b, c, n) ==
            IF b = a THEN DecodeFail("Expecting value", i - 1)
            ELSE IF c > b + 1 THEN Decoded(PyFloat(n, strip_zeros(Slice(s, b + 1, c - 1))), c)
            ELSE Decoded(PyInt(IF neg THEN -n ELSE n), b)
        Integer(a, b) ==
            Number(a, b, IF CharAt(s, b) = "." THEN digits_end(s, b + 1) ELSE b,
                   digits_int(Slice(s, a, b - 1)))
        From(a) == Integer(a, IF CharAt(s, a) = "0" THEN a + 1 ELSE digits_end(s, a))
    IN  From(IF neg THEN i + 1 ELSE i)

RECURSIVE scanstring(_, _, _, _)
\* scanstring(s, end): i is the position after the opening quote at begin
scanstring(s, i, begin, acc) ==
    LET Unescaped == [c \in {"\"", "\\", "/", "n", "t", "r", "f"} |->
                        CASE c = "n" -> "\n" [] c = "t" -> "\t" [] c = "r" -> "\r"
                          [] c = "f" -> "\f" [] OTHER -> c]
        \* j is the next terminator, chunk the content up to it, e the character after it
        At(j, chunk, e) ==
            IF j > Len(s) THEN DecodeFail("Unterminated string starting at", begin - 1)
            ELSE IF CharAt(s, j) = "\"" THEN Decoded(PyStr(chunk), j + 1)
            ELSE IF CharAt(s, j) # "\\" THEN DecodeFail("Invalid control character at", j - 1)
            ELSE IF e = "" THEN DecodeFail("Unterminated string starting at", begin - 1)
            ELSE IF e \in DOMAIN Unescaped THEN scanstring(s, j + 2, begin, chunk \o Unescaped[e])
            ELSE DecodeFail("Invalid \\escape", j - 1)
        Stop(j) == At(j, acc \o Slice(s, i, j - 1), CharAt(s, j + 1))
    IN  Stop(first_at(s, i, {"\"", "\\", "\n", "\t", "\r", "\f"}, TRUE))

\* dict(pairs): a repeated key keeps its first position and takes the last value
dict_set(d, k, v) ==
    IF \E i \in 1..Len(d) : d[i].k = k
    THEN [i \in 1..Len(d) |-> IF d[i].k = k THEN Entry(k, v) ELSE d[i]]
    ELSE Append(d, Entry(k, v))

RECURSIVE scan_once(_, _)
RECURSIVE JSONObject_passes(_, _, _), JSONArray_passes(_, _, _)
RECURSIVE JSONObject_pairs(_, _, _), JSONArray_values(_, _, _)

\* the body of JSONObject's loop, from st = [i |-> the position after the opening
\* quote of the next key, pairs |-> the pairs decoded so far]: the state the
\* next pass starts from, or what the loop ends with
JSONObject_pair(s, st) ==
    LET Pair(key, val, after, next) ==
            IF CharAt(s, after) = "}"
            THEN Decoded(PyDict(dict_set(st.pairs, key.v.s, val.v)), after + 1)
            ELSE IF CharAt(s, after) # "," THEN DecodeFail("Expecting ',' delimiter", after - 1)
            ELSE IF CharAt(s, next) # "\""
                 THEN DecodeFail("Expecting property name enclosed in double quotes", next - 1)
            ELSE [i |-> next + 1, pairs |-> dict_set(st.pairs, key.v.s, val.v)]
        After(key, val, after) == Pair(key, val, after, skip_ws(s, after + 1))
        Value(key, val) == IF ~val.ok THEN val ELSE After(key, val, skip_ws(s, val.end))
        Colon(key, colon) ==
            IF CharAt(s, colon) # ":" THEN DecodeFail("Expecting ':' delimiter", colon - 1)
            ELSE Value(key, scan_once(s, skip_ws(s, colon + 1)))
        Key(key) == IF ~key.ok THEN key ELSE Colon(key, skip_ws(s, key.end))
    IN  Key(scanstring(s, st.i, st.i - 1, ""))

\* at most n passes of JSONObject's loop from st
JSONObject_passes(s, st, n) ==
    IF "ok" \in DOMAIN st THEN st
    ELSE IF n <= 1 THEN JSONObject_pair(s, st)
    ELSE JSONObject_passes(s, JSONObject_passes(s, st, n \div 2), n - n \div 2)

\* JSONObject's loop: its body repeated from st until the loop ends (n passes,
\* then 2n, 4n, ...)
JSONObject_pairs(s, st, n) ==
    IF "ok" \in DOMAIN st THEN st
    ELSE JSONObject_pairs(s, JSONObject_passes(s, st, n), 2 * n)

\* JSONObject(s, end): i is the position after "{"
JSONObject(s, i) ==
    LET First(j) ==
            IF CharAt(s, j) = "}" THEN Decoded(PyDict(<<>>), j + 1)
            ELSE IF CharAt(s, j) # "\""
                 THEN DecodeFail("Expecting property name enclosed in double quotes", j - 1)
            ELSE JSONObject_pairs(s, [i |-> j + 1, pairs |-> <<>>], 1)
    IN  First(IF CharAt(s, i) # "\"" THEN skip_ws(s, i) ELSE i)

\* the body of JSONArray's loop, from st = [i |-> the position of the next
\* value, values |-> the values decoded so far]: the state the next pass
\* starts from, or what the loop ends with
JSONArray_value(s, st) ==
    LET After(val, after) ==
            IF CharAt(s, after) = "]" THEN Decoded(PyList(Append(st.values, val.v)), after + 1)
            ELSE IF CharAt(s, after) # "," THEN DecodeFail("Expecting ',' delimiter", after - 1)
            ELSE [i |-> skip_ws(s, after + 1), values |-> Append(st.values, val.v)]
        Value(val) == IF ~val.ok THEN val ELSE After(val, skip_ws(s, val.end))
    IN  Value(scan_once(s, st.i))

\* at most n passes of JSONArray's loop from st
JSONArray_passes(s, st, n) ==
    IF "ok" \in DOMAIN st THEN st
    ELSE IF n <= 1 THEN JSONArray_value(s, st)
    ELSE JSONArray_passes(s, JSONArray_passes(s, st, n \div 2), n - n \div 2)

\* JSONArray's loop: its body repeated from st until the loop ends (n passes,
\* then 2n, 4n, ...)
JSONArray_values(s, st, n) ==
    IF "ok" \in DOMAIN st THEN st
    ELSE JSONArray_values(s, JSONArray_passes(s, st, n), 2 * n)

\* JSONArray(s, end): i is the position after "["
JSONArray(s, i) ==
    LET First(j) == IF CharAt(s, j) = "]" THEN Decoded(PyList(<<>>), j + 1)
                    ELSE JSONArray_values(s, [i |-> j, values |-> <<>>], 1)
    IN  First(skip_ws(s, i))

\* scan_once(string, idx); StopIteration(idx) becomes "Expecting value" at idx
scan_once(s, i) ==
    LET c == CharAt(s, i)
    IN  CASE c = "\"" -> scanstring(s, i + 1, i, "")
          [] c = "{"  -> JSONObject(s, i + 1)
          [] c = "["  -> JSONArray(s, i + 1)
          [] c = "n" /\ Slice(s, i, i + 3) = "null"  -> Decoded(None, i + 4)
          [] c = "t" /\ Slice(s, i, i + 3) = "true"  -> Decoded(PyBool(TRUE), i + 4)
          [] c = "f" /\ Slice(s, i, i + 4) = "false" -> Decoded(PyBool(FALSE), i + 5)
          [] c = "-" \/ IsDigit(c) -> scan_number(s, i)
          [] OTHER -> DecodeFail("Expecting value", i - 1)

\* json.loads(text): the decoded value, or the JSONDecodeError raised
json_loads(text) ==
    LET End(r, e) == IF e # Len(text) + 1 THEN JSONDecodeError("Extra data", text, e - 1)
                     ELSE r.v
        Scanned(r) == IF ~r.ok THEN JSONDecodeError(r.msg, text, r.pos)
                      ELSE End(r, skip_ws(text, r.end))
    IN  Scanned(scan_once(text, skip_ws(text, 1)))

---------------------------------------------------------------------------
(* Text sanitizer: strip_html and truncate_text (auto_data_binder.py).
   html.unescape is modelled for the character references &amp; &lt; &gt;
   &quot; &apos; &#39; &#x27;  and html.parser.HTMLParser.goahead for text,
   start tags <name ...> without quoted attribute values, and end tags
   </name>; comments, declarations, processing instructions and the CDATA
   elements script and style are outside the modelled texts. *)

CharRefs ==
    << <<"&amp;", "&">>, <<"&lt;", "<">>, <<"&gt;", ">">>, <<"&quot;", "\"">>,
       <<"&apos;", "'">>, <<"&#39;", "'">>, <<"&#x27;", "'">> >>

RECURSIVE html_unescape(_)
\* html.unescape(s)
html_unescape(s) ==
    LET amp == find(s, "&", 1)
        rest == Suffix(s, amp - 1)
        refs == {r \in 1..Len(CharRefs) : startswith(rest, CharRefs[r][1])}
        ref == CharRefs[CHOOSE r \in refs : TRUE]
    IN  IF amp = 0 THEN s
        ELSE IF refs = {} THEN Prefix(s, amp) \o html_unescape(Suffix(s, amp))
        ELSE Prefix(s, amp - 1) \o ref[2] \o html_unescape(Suffix(rest, Len(ref[1])))

\* HTMLStripper.__init__: a new parser holds no text
HTMLStripper == [text |-> <<>>]
\* HTMLStripper.handle_data
handle_data(stripper, d) == [stripper EXCEPT !.text = Append(@, d)]
\* HTMLStripper.get_data
get_data(stripper) == join("", stripper.text)

RECURSIVE goahead(_, _, _)
\* HTMLParser.goahead(end=False) from position i of rawdata (feed without close:
\* what the parser holds back as incomplete is never handed to handle_data)
goahead(stripper, rawdata, i) ==
    LET n == Len(rawdata)
        lt == find(rawdata, "<", i)
        \* no further "<": text that may end inside a character reference is held back
        tail == Suffix(rawdata, Max(i, n - 33) - 1)
        amps == {a \in 1..Len(tail) : CharAt(tail, a) = "&"}
        amp == IF amps = {} THEN 0 ELSE CHOOSE a \in amps : \A b \in amps : b <= a
        held == amp > 0 /\ ~\E a \in amp..Len(tail) : IsSpace(CharAt(tail, a)) \/ CharAt(tail, a) = ";"
        j == IF lt = 0 THEN n + 1 ELSE lt
        fed == IF i < j THEN handle_data(stripper, html_unescape(Slice(rawdata, i, j - 1)))
               ELSE stripper
        gt == find(rawdata, ">", j + 1)
        c == CharAt(rawdata, j + 1)
    IN  IF i > n THEN stripper
        ELSE IF lt = 0 /\ held THEN stripper
        ELSE IF j > n THEN fed
        ELSE IF IsLetter(c) \/ (c = "/" /\ IsLetter(CharAt(rawdata, j + 2)))
             THEN IF gt = 0 THEN fed ELSE goahead(fed, rawdata, gt + 1)
        ELSE IF j + 1 <= n THEN goahead(handle_data(fed, "<"), rawdata, j + 1)
        ELSE fed

RECURSIVE collapse_ws(_)
\* re.sub(r'\s+', ' ', s)
collapse_ws(s) ==
    IF s = "" THEN ""
    ELSE IF IsSpace(CharAt(s, 1))
         THEN IF IsSpace(CharAt(s, 2)) THEN collapse_ws(Suffix(s, 1))
              ELSE " " \o collapse_ws(Suffix(s, 1))
    ELSE LET stops == {i \in 1..Len(s) : IsSpace(CharAt(s, i))}
             stop == IF stops = {} THEN Len(s) + 1
                     ELSE CHOOSE i \in stops : \A k \in stops : i <= k
         IN  Prefix(s, stop - 1) \o collapse_ws(Suffix(s, stop - 1))

\* str.strip() of a string whose whitespace runs are already single spaces
strip(s) ==
    LET a == IF CharAt(s, 1) = " " THEN 2 ELSE 1
        b == IF CharAt(s, Len(s)) = " " THEN Len(s) - 1 ELSE Len(s)
    IN  Slice(s, a, b)

\* strip_html(text): text is any Python value, the result a str
strip_html(text) ==
    LET unescaped == html_unescape(text.s)
    IN  IF text.t # "str" THEN py_str(text)
        ELSE IF ~contains(unescaped, "<") /\ ~contains(unescaped, ">") THEN unescaped
        ELSE strip(collapse_ws(get_data(goahead(HTMLStripper, unescaped, 1))))

\* a truncation that would cut the text and leave no marker
truncate_text_unmarked(text, max_length) ==
    LET str == py_str(text)
    IN  IF Len(str) <= max_length THEN str ELSE Prefix(str, max_length)

\* truncate_text(text, max_length)
truncate_text(text, max_length) ==
    LET str == py_str(text)
    IN  IF Len(str) <= max_length THEN str ELSE Prefix(str, max_length) \o "..."

---------------------------------------------------------------------------
(* Field classifier (auto_data_binder.py) *)

\* a classifier without the boolean rule
should_skip_field_keeping_booleans(key, value) ==
    LET key_lower == lower(key)
    IN  \/ key_lower = "id" \/ endswith(key_lower, "_id")
        \/ endswith(key_lower, "_at")
        \/ key_lower \in {"node_id", "sha", "etag", "gravatar_id"}

\* a classifier that would compare the key as it is written
should_skip_field_case_sensitive(key, value) ==
    \/ value.t = "bool"
    \/ key = "id" \/ endswith(key, "_id")
    \/ endswith(key, "_at")
    \/ key \in {"node_id", "sha", "etag", "gravatar_id"}

\* should_skip_field(key, value)
should_skip_field(key, value) ==
    LET key_lower == lower(key)
    IN  \/ value.t = "bool"
        \/ key_lower = "id" \/ endswith(key_lower, "_id")
        \/ endswith(key_lower, "_at")
        \/ key_lower \in {"node_id", "sha", "etag", "gravatar_id"}

\* a classifier that would go by the key alone for values that are no str
is_url_field_of_any_type(key, value) ==
    LET key_lower == lower(key)
    IN  \/ contains(key_lower, "url")
        \/ contains(key_lower, "link")
        \/ contains(key_lower, "href")
        \/ value.t = "str" /\ (startswith(value.s, "http://") \/ startswith(value.s, "https://"))

\* is_url_field(key, value)
is_url_field(key, value) ==
    LET key_lower == lower(key)
    IN  /\ value.t = "str"
        /\ \/ contains(key_lower, "url")
           \/ contains(key_lower, "link")
           \/ contains(key_lower, "href")
           \/ startswith(value.s, "http://")
           \/ startswith(value.s, "https://")

\* format_field_name(key)
format_field_name(key) ==
    LET words == split(replace_char(key, "_", " "))
    IN  join(" ", [i \in 1..Len(words) |-> capitalize(words[i])])

\* key in d, d[key] and d.get(key, default) for a dict value's entries
has_key(d, key) == \E i \in 1..Len(d) : d[i].k = key
get_item(d, key) == d[CHOOSE i \in 1..Len(d) : d[i].k = key].v
dict_get(d, key, default) == IF has_key(d, key) THEN get_item(d, key) ELSE default

\* an icon rule that would match a name anywhere inside a key
infer_icon_by_substring(obj) ==
    LET keys == {lower(obj.d[i].k) : i \in 1..Len(obj.d)}
        any(names) == \E k \in keys, name \in names : contains(k, name)
    IN  IF any({"repo", "repository", "github"}) THEN "package"
        ELSE IF any({"search", "query", "results"}) THEN "magnifier"
        ELSE IF any({"file", "document", "path"}) THEN "page"
        ELSE IF any({"user", "author", "owner"}) THEN "person"
        ELSE IF any({"error", "exception"}) THEN "warning_emoji"
        ELSE "clipboard"

\* infer_icon(data): obj is the dict passed as data
infer_icon(obj) ==
    LET keys == {lower(obj.d[i].k) : i \in 1..Len(obj.d)}
    IN  IF keys \cap {"repo", "repository", "github"} # {} THEN "package"
        ELSE IF keys \cap {"search", "query", "results"} # {} THEN "magnifier"
        ELSE IF keys \cap {"file", "document", "path"} # {} THEN "page"
        ELSE IF keys \cap {"user", "author", "owner"} # {} THEN "person"
        ELSE IF keys \cap {"error", "exception"} # {} THEN "warning_emoji"
        ELSE "clipboard"

---------------------------------------------------------------------------
(* Component schemas (components/*.py): pydantic models.  Construction
   validates the declared field types and nothing else; a value of the wrong
   type raises pydantic's ValidationError (pydantic 2, which the mcp package
   the gateway imports requires: a str field takes only a str). *)

type_name(v) ==
    CASE v.t = "null" -> "NoneType" [] v.t = "bool" -> "bool" [] v.t = "int" -> "int"
      [] v.t = "float" -> "float" [] v.t = "str" -> "str" [] v.t = "list" -> "list"
      [] v.t = "dict" -> "dict" [] OTHER -> "TextContent"

RECURSIVE error_lines(_, _)
error_lines(errors, i) ==
    IF i > Len(errors) THEN ""
    ELSE "\n" \o errors[i].field \o "\n  Input should be a valid " \o errors[i].want
         \o " [type=" \o errors[i].want \o "_type, input_value=" \o py_repr(errors[i].v)
         \o ", input_type=" \o type_name(errors[i].v) \o "]"
         \o "\n    For further information visit https://errors.pydantic.dev/2.11/v/"
         \o errors[i].want \o "_type"
         \o error_lines(errors, i + 1)

\* str(ValidationError) for the fields of `model` whose value has the wrong type
ValidationError(model, errors) ==
    Raise("ValidationError",
          int_str(Len(errors)) \o " validation error" \o (IF Len(errors) > 1 THEN "s" ELSE "")
              \o " for " \o model \o error_lines(errors, 1))

\* the fields among `fields` (<<name, value, wanted type, optional>>) that fail validation
invalid_fields(fields) ==
    LET bad(f) == ~(f[2].t = (IF f[3] = "string" THEN "str" ELSE "list") \/ (f[4] /\ f[2].t = "null"))
    IN  SelectSeq([i \in 1..Len(fields) |-> [field |-> fields[i][1], v |-> fields[i][2],
                                              want |-> fields[i][3], bad |-> bad(fields[i])]],
                  LAMBDA e : e.bad)

\* BannerComponent(type=, message=, icon=): every call site passes str literals or f-strings
BannerComponent(type, message, icon) ==
    [component |-> "banner", type |-> type, message |-> message, icon |-> icon]

\* KeyValueComponent(key=, value=)
KeyValueComponent(key, value) ==
    LET errors == invalid_fields(<< <<"key", key, "string", FALSE>>, <<"value", value, "string", FALSE>> >>)
    IN  IF Len(errors) > 0 THEN ValidationError("KeyValueComponent", errors)
        ELSE [component |-> "keyvalue", key |-> key.s, value |-> value.s]

\* LinkComponent(text=, url=)
LinkComponent(text, url) ==
    LET errors == invalid_fields(<< <<"text", text, "string", FALSE>>, <<"url", url, "string", FALSE>> >>)
    IN  IF Len(errors) > 0 THEN ValidationError("LinkComponent", errors)
        ELSE [component |-> "link", text |-> text.s, url |-> url.s]

\* CardComponent(title=, subtitle=, icon=, metadata=, link=): metadata is
\* Optional[List] (None or a list of any length), link is Optional[object]
CardComponent(title, subtitle, icon, metadata, link) ==
    LET errors == invalid_fields(<< <<"title", title, "string", FALSE>>,
                                    <<"subtitle", subtitle, "string", TRUE>>,
                                    <<"metadata", metadata, "list", TRUE>> >>)
    IN  IF Len(errors) > 0 THEN ValidationError("CardComponent", errors)
        ELSE [component |-> "card", title |-> title.s, subtitle |-> subtitle, icon |-> icon,
              metadata |-> metadata, link |-> link]

\* a List schema that would cut its items to 20 itself
ListComponent_capped(items) ==
    LET errors == invalid_fields(<< <<"items", items, "list", FALSE>> >>)
    IN  IF Len(errors) > 0 THEN ValidationError("ListComponent", errors)
        ELSE [component |-> "list", items |-> SubSeq(items.l, 1, Min(Len(items.l), 20))]

\* ListComponent(items=): items is List[Any] (a list of any length)
ListComponent(items) ==
    LET errors == invalid_fields(<< <<"items", items, "list", FALSE>> >>)
    IN  IF Len(errors) > 0 THEN ValidationError("ListComponent", errors)
        ELSE [component |-> "list", items |-> items.l]

---------------------------------------------------------------------------
(* Structural inference (auto_data_binder.py) *)

MAX_FIELDS == 10       \* object_to_card's max_fields default
MAX_ITEMS == 20        \* the [:20] slices of bind_data
MAX_VALUE_LEN == 200   \* truncate_text's max_length for displayed values
PREVIEW_ITEMS == 5     \* elements shown of a list of primitives
PREVIEW_ITEM_LEN == 50 \* characters shown of each
ERROR_LEN == 100       \* characters kept of str(e) in an error Banner

\* the first raised exception among the results xs, else Keep
first_raise(xs, Keep) ==
    LET raised == {i \in 1..Len(xs) : IsRaise(xs[i])}
    IN  IF raised = {} THEN Keep ELSE xs[CHOOSE i \in raised : \A j \in raised : i <= j]

\* `key in obj and obj[key]` of object_to_card's title loop, for any Python value
\* obj: [hit |-> whether it is true], or the exception the expression raises
title_test(obj, key) ==
    CASE obj.t = "dict" -> [hit |-> has_key(obj.d, key) /\ truthy(get_item(obj.d, key))]
      [] obj.t = "str"  ->
            IF contains(obj.s, key)
            THEN Raise("TypeError", "string indices must be integers, not 'str'")
            ELSE [hit |-> FALSE]
      [] obj.t = "list" ->
            IF \E i \in 1..Len(obj.l) : obj.l[i] = PyStr(key)
            THEN Raise("TypeError", "list indices must be integers or slices, not str")
            ELSE [hit |-> FALSE]
      [] OTHER -> Raise("TypeError", "argument of type '" \o type_name(obj) \o "' is not iterable")

\* a title search that would try 'name' before 'title'
card_title_name_first(obj) ==
    LET keys == <<"name", "title", "full_name", "id">>
        tests == [i \in 1..Len(keys) |-> title_test(obj, keys[i])]
        stops == {i \in 1..Len(keys) : IsRaise(tests[i]) \/ tests[i].hit}
        stop == CHOOSE i \in stops : \A j \in stops : i <= j
        short == {i \in 1..Len(obj.d) : obj.d[i].v.t = "str" /\ 3 < Len(obj.d[i].v.s)
                                        /\ Len(obj.d[i].v.s) < 100}
        first == CHOOSE i \in short : \A j \in short : i <= j
    IN  IF stops # {}
        THEN IF ~IsRaise(tests[stop])
             THEN [key |-> PyStr(keys[stop]), title |-> py_str(get_item(obj.d, keys[stop]))]
             ELSE tests[stop]
        ELSE IF obj.t # "dict"
             THEN Raise("AttributeError", "'" \o type_name(obj) \o "' object has no attribute 'items'")
        ELSE IF short # {}
             THEN [key |-> PyStr(obj.d[first].k), title |-> obj.d[first].v.s]
        ELSE [key |-> None, title |-> "Result"]

\* object_to_card, lines 158-176: [key |-> the title's key (None when it has none),
\* title |-> the title], or the exception raised
card_title(obj) ==
    LET keys == <<"title", "name", "full_name", "id">>
        tests == [i \in 1..Len(keys) |-> title_test(obj, keys[i])]
        stops == {i \in 1..Len(keys) : IsRaise(tests[i]) \/ tests[i].hit}
        stop == CHOOSE i \in stops : \A j \in stops : i <= j
        short == {i \in 1..Len(obj.d) : obj.d[i].v.t = "str" /\ 3 < Len(obj.d[i].v.s)
                                        /\ Len(obj.d[i].v.s) < 100}
        first == CHOOSE i \in short : \A j \in short : i <= j
    IN  IF stops # {}
        THEN IF ~IsRaise(tests[stop])
             THEN [key |-> PyStr(keys[stop]), title |-> py_str(get_item(obj.d, keys[stop]))]
             ELSE tests[stop]
        ELSE IF obj.t # "dict"
             THEN Raise("AttributeError", "'" \o type_name(obj) \o "' object has no attribute 'items'")
        ELSE IF short # {}
             THEN [key |-> PyStr(obj.d[first].k), title |-> obj.d[first].v.s]
        ELSE [key |-> None, title |-> "Result"]

\* object_to_card, lines 202-220: the display value of a field that becomes a KeyValue
card_value(value) ==
    CASE value.t = "dict" ->
            IF has_key(value.d, "login") THEN get_item(value.d, "login")
            ELSE IF has_key(value.d, "name") THEN get_item(value.d, "name")
            ELSE PyStr(json_dumps(value))
      [] value.t = "list"  -> PyStr("[" \o int_str(Len(value.l)) \o " items]")
      [] value.t = "int"   -> PyStr(IF value.n >= 1000 THEN int_commas(value.n) ELSE int_str(value.n))
      [] value.t = "float" -> PyStr(float_str(value))
      [] OTHER             -> PyStr(py_str(value))

\* `value is None or value == ""`
is_empty(value) == value.t = "null" \/ (value.t = "str" /\ value.s = "")

\* the body of object_to_card's loop, lines 182-235, for the field at st.i, from
\* st = [i |-> the next field, kvs |-> the KeyValues, links |-> the Links so far];
\* `break` leaves no next field
card_field(obj, title_key, max_fields, st) ==
    LET Keep(kv) ==
            [i |-> IF Len(st.kvs) + 1 >= max_fields THEN Len(obj.d) + 1 ELSE st.i + 1,
             kvs |-> Append(st.kvs, kv), links |-> st.links]
        Field(key, value) ==
            IF PyStr(key) = title_key \/ is_empty(value) \/ should_skip_field(key, value)
            THEN [st EXCEPT !.i = @ + 1]
            ELSE IF is_url_field(key, value)
                 THEN [st EXCEPT !.i = @ + 1,
                                 !.links = Append(@, LinkComponent(
                                                         PyStr(IF lower(key) = "url" THEN "Open"
                                                               ELSE format_field_name(key)),
                                                         value))]
            ELSE Keep(KeyValueComponent(
                          PyStr(format_field_name(key)),
                          PyStr(truncate_text(PyStr(strip_html(card_value(value))), MAX_VALUE_LEN))))
    IN  Field(obj.d[st.i].k, obj.d[st.i].v)

RECURSIVE card_fields(_, _, _, _, _)
\* object_to_card's loop: its body repeated from st until no field is left
\* (n bounds the passes)
card_fields(obj, title_key, max_fields, st, n) ==
    IF st.i > Len(obj.d) THEN st
    ELSE IF n <= 1 THEN card_field(obj, title_key, max_fields, st)
    ELSE card_fields(obj, title_key, max_fields,
                     card_fields(obj, title_key, max_fields, st, n \div 2), n - n \div 2)

\* a Card-builder that would take the last link found instead of the first
object_to_card_last_link(obj, max_fields) ==
    LET Card(t, f) ==
            CardComponent(PyStr(t.title), None, infer_icon(obj),
                          IF Len(f.kvs) > 0 THEN PyList(f.kvs) ELSE None,
                          IF Len(f.links) > 0 THEN f.links[Len(f.links)] ELSE None)
        Titled(t) ==
            IF IsRaise(t) THEN t
            ELSE Card(t, card_fields(obj, t.key, max_fields,
                                     [i |-> 1, kvs |-> <<>>, links |-> <<>>], Len(obj.d)))
    IN  Titled(card_title(obj))

\* object_to_card(obj, max_fields): the Card, or the exception raised when obj is no dict
object_to_card(obj, max_fields) ==
    LET Card(t, f) ==
            CardComponent(PyStr(t.title), None, infer_icon(obj),
                          IF Len(f.kvs) > 0 THEN PyList(f.kvs) ELSE None,
                          IF Len(f.links) > 0 THEN f.links[1] ELSE None)
        Titled(t) ==
            IF IsRaise(t) THEN t
            ELSE Card(t, card_fields(obj, t.key, max_fields,
                                     [i |-> 1, kvs |-> <<>>, links |-> <<>>], Len(obj.d)))
    IN  Titled(card_title(obj))

\* object_to_keyvalue_grid, lines 258-269: the display value of a field
grid_value(value) ==
    CASE value.t = "dict"  -> json_dumps(value)
      [] value.t = "list"  -> "[" \o int_str(Len(value.l)) \o " items]"
      [] value.t = "int"   -> IF value.n >= 1000 THEN int_commas(value.n) ELSE int_str(value.n)
      [] value.t = "float" -> IF value.i >= 1000 THEN float_commas(value) ELSE float_str(value)
      [] OTHER             -> py_str(value)

\* the body of object_to_keyvalue_grid's loop, lines 250-280, for the field at
\* st.i, from st = [i |-> the next field, kvs |-> the KeyValues so far]
grid_field(obj, st) ==
    LET Field(key, value) ==
            IF is_empty(value) \/ should_skip_field(key, value) THEN [st EXCEPT !.i = @ + 1]
            ELSE [i |-> st.i + 1,
                  kvs |-> Append(st.kvs,
                                 KeyValueComponent(
                                     PyStr(format_field_name(key)),
                                     PyStr(truncate_text(PyStr(strip_html(PyStr(grid_value(value)))),
                                                         MAX_VALUE_LEN))))]
    IN  Field(obj.d[st.i].k, obj.d[st.i].v)

RECURSIVE grid_fields(_, _, _)
\* object_to_keyvalue_grid's loop: its body repeated from st until no field is
\* left (n bounds the passes)
grid_fields(obj, st, n) ==
    IF st.i > Len(obj.d) THEN st
    ELSE IF n <= 1 THEN grid_field(obj, st)
    ELSE grid_fields(obj, grid_fields(obj, st, n \div 2), n - n \div 2)

\* object_to_keyvalue_grid(obj): the sequence of KeyValues
object_to_keyvalue_grid(obj) == grid_fields(obj, [i |-> 1, kvs |-> <<>>], Len(obj.d)).kvs

\* hasattr(item, 'text')
has_text(item) == item.t = "block"

\* bind_data, lines 306-310: the decoded payload of a content block
decode_block(item) ==
    LET Payload(decoded) == IF IsRaise(decoded) THEN PyStr(item.text) ELSE decoded
    IN  Payload(json_loads(item.text))

\* bind_data, lines 297-324: parsed_data, from the RawResult `raw`
unwrap_content(raw) ==
    LET Unwrap(parsed_items) ==
            IF Len(parsed_items) > 1 THEN PyList(parsed_items)
            ELSE IF Len(parsed_items) = 1 THEN parsed_items[1]
            ELSE None
        Decode(blocks) == Unwrap([i \in 1..Len(blocks) |-> decode_block(blocks[i])])
    IN  IF raw.t = "list" /\ Len(raw.l) > 0
        THEN IF has_text(raw.l[1]) THEN Decode(SelectSeq(raw.l, has_text)) ELSE raw
        ELSE raw

\* a Card list over every item, without the [:20] slice
cards_list_unsliced(items) ==
    LET Listed(cards) == first_raise(cards, ListComponent(PyList(cards)))
    IN  Listed([i \in 1..Len(items) |-> object_to_card(items[i], MAX_FIELDS)])

\* [object_to_card(obj) for obj in items[:20]] wrapped in a ListComponent
cards_list(items) ==
    LET Listed(cards) == first_raise(cards, ListComponent(PyList(cards)))
    IN  Listed([i \in 1..Min(Len(items), MAX_ITEMS) |-> object_to_card(items[i], MAX_FIELDS)])

\* a preview that would show every element's string form whole
preview_banner_complete(items) ==
    LET Banner(preview) ==
            BannerComponent("info",
                            IF Len(items) > PREVIEW_ITEMS
                            THEN preview \o "... (" \o int_str(Len(items)) \o " total)"
                            ELSE preview,
                            "clipboard")
    IN  Banner(join(", ", [i \in 1..Min(Len(items), PREVIEW_ITEMS) |-> py_str(items[i])]))

\* bind_data, lines 336-343: the info Banner previewing a list of primitives
preview_banner(items) ==
    LET Banner(preview) ==
            BannerComponent("info",
                            IF Len(items) > PREVIEW_ITEMS
                            THEN preview \o "... (" \o int_str(Len(items)) \o " total)"
                            ELSE preview,
                            "clipboard")
    IN  Banner(join(", ", [i \in 1..Min(Len(items), PREVIEW_ITEMS) |->
                              Prefix(py_str(items[i]), PREVIEW_ITEM_LEN)]))

\* `key in parsed and isinstance(parsed[key], list)` with a first element that is a dict
has_object_list(parsed, key) ==
    /\ has_key(parsed.d, key)
    /\ get_item(parsed.d, key).t = "list"
    /\ Len(get_item(parsed.d, key).l) > 0
    /\ get_item(parsed.d, key).l[1].t = "dict"

\* bind_data, lines 326-400: the component (or exception) for parsed_data
map_structure(parsed) ==
    LET Small(keyvalues) ==
            IF Len(keyvalues) = 1
            THEN BannerComponent("success", keyvalues[1].key \o ": " \o keyvalues[1].value, "check")
            ELSE CardComponent(PyStr("Result"), None, "clipboard", PyList(keyvalues), None)
    IN  CASE parsed.t = "list" /\ Len(parsed.l) > 0 ->
                IF parsed.l[1].t = "dict" THEN cards_list(parsed.l) ELSE preview_banner(parsed.l)
          [] parsed.t = "dict" ->
                IF has_object_list(parsed, "items") THEN cards_list(get_item(parsed.d, "items").l)
                ELSE IF has_object_list(parsed, "results")
                     THEN cards_list(get_item(parsed.d, "results").l)
                ELSE IF Len(parsed.d) < 5 THEN Small(object_to_keyvalue_grid(parsed))
                ELSE object_to_card(parsed, MAX_FIELDS)
          [] parsed.t = "str" ->
                BannerComponent("info", truncate_text(PyStr(strip_html(parsed)), MAX_VALUE_LEN), "page")
          [] OTHER -> BannerComponent("info", py_str(parsed), "clipboard")

\* the except clause of bind_data, lines 402-409
binding_error(e) ==
    BannerComponent("error", "Data binding error: " \o Prefix(e.msg, ERROR_LEN), "warning")

\* a bind_data without its try/except
bind_data_uncaught(raw) == map_structure(unwrap_content(raw))

\* a bind_data that would keep state between invocations: once it has
\* returned, it answers with a note instead of binding again
bind_data_remembering(raw) ==
    IF prior = Unset THEN bind_data_uncaught(raw)
    ELSE BannerComponent("info", "(shown above)", "clipboard")

\* bind_data(data): raw is the RawResult passed as data
bind_data(raw) ==
    LET Caught(component) == IF IsRaise(component) THEN binding_error(component) ELSE component
    IN  Caught(map_structure(unwrap_content(raw)))

---------------------------------------------------------------------------
(* Provider overrides and the dispatch router (data_bindings/*.py).
   The emoji that prefix the GitHub KeyValue keys are written [star],
   [laptop] and [person]. *)

BRAVE_MAX_RESULTS == 5    \* results[:5]
GITHUB_MAX_RESULTS == 10  \* results[:10]
SUBTITLE_LEN == 150       \* description[:150]
ROUTER_TEXT_LEN == 500    \* the raw preview's length

RECURSIVE lstrip(_)
lstrip(s) == IF s # "" /\ IsSpace(CharAt(s, 1)) THEN lstrip(Suffix(s, 1)) ELSE s

\* urllib.parse.urlparse(url).netloc for a str url: [netloc |-> ...], or the
\* ValueError urlsplit raises
urlparse_netloc(url) ==
    LET Netloc(netloc) ==
            IF contains(netloc, "[") # contains(netloc, "]")
            THEN Raise("ValueError", "Invalid IPv6 URL")
            ELSE [netloc |-> netloc]
        Authority(rest, delims) ==
            Netloc(IF Prefix(rest, 2) = "//"
                   THEN Slice(rest, 3, (IF delims = {} THEN Len(rest)
                                        ELSE (CHOOSE i \in delims : \A j \in delims : i <= j) - 1))
                   ELSE "")
        Rest(rest) == Authority(rest, {i \in 3..Len(rest) : CharAt(rest, i) \in {"/", "?", "#"}})
        Scheme(clean, colon) ==
            Rest(IF /\ colon > 1
                    /\ IsLetter(CharAt(clean, 1))
                    /\ \A i \in 1..(colon - 1) :
                           IsLetter(CharAt(clean, i)) \/ IsDigit(CharAt(clean, i))
                           \/ CharAt(clean, i) \in {"+", "-", "."}
                 THEN Suffix(clean, colon) ELSE clean)
        Clean(clean) == Scheme(clean, find(clean, ":", 1))
    IN  Clean(replace_char(replace_char(replace_char(lstrip(url), "\t", ""), "\r", ""), "\n", ""))

\* result.get(key, default) for any Python value `obj`: the value, or the
\* AttributeError raised when obj is no dict
get_or_raise(obj, key, default) ==
    IF obj.t = "dict" THEN dict_get(obj.d, key, default)
    ELSE Raise("AttributeError", "'" \o type_name(obj) \o "' object has no attribute 'get'")

\* `description[:150] if description else None` (CPython 3.11's messages)
subtitle_of(description) ==
    CASE ~truthy(description)   -> None
      [] description.t = "str"  -> PyStr(Prefix(description.s, SUBTITLE_LEN))
      [] description.t = "list" ->
            PyList(SubSeq(description.l, 1, Min(Len(description.l), SUBTITLE_LEN)))
      [] description.t = "dict" -> Raise("TypeError", "unhashable type: 'slice'")
      [] OTHER -> Raise("TypeError", "'" \o type_name(description) \o "' object is not subscriptable")

\* map_brave_search, lines 53-77: the Card of one result
brave_card(res) ==
    LET Card(title, link, subtitle, metadata) ==
            IF IsRaise(title) THEN title
            ELSE IF IsRaise(link) THEN link
            ELSE IF IsRaise(subtitle) THEN subtitle
            ELSE CardComponent(title, subtitle, "magnifier",
                               IF Len(metadata) > 0 THEN PyList(metadata) ELSE None, link)
        \* the inner try: a url urlparse rejects adds no Source field
        Source(parsed) ==
            IF IsRaise(parsed) THEN <<>>
            ELSE <<KeyValueComponent(PyStr("Source"), PyStr(parsed.netloc))>>
        Fields(description, url) ==
            Card(get_or_raise(res, "title", PyStr("No title")),
                 IF truthy(url) THEN LinkComponent(PyStr("Open"), url) ELSE None,
                 subtitle_of(description),
                 IF truthy(url) /\ url.t = "str" THEN Source(urlparse_netloc(url.s)) ELSE <<>>)
    IN  Fields(dict_get(res.d, "description", PyStr("")), dict_get(res.d, "url", PyStr("")))

\* an except clause that would carry the whole of str(e)
brave_error_untruncated(e) ==
    BannerComponent("error", "Error mapping search results: " \o e.msg, "warning")

\* the except clause of map_brave_search, lines 81-86
brave_error(e) ==
    BannerComponent("error", "Error mapping search results: " \o Prefix(e.msg, ERROR_LEN), "warning")

\* map_brave_search, lines 32-79: the body of the try, which returns a
\* Component or raises
brave_mapped(raw) ==
    LET Listed(cards) == first_raise(cards, ListComponent(PyList(cards)))
        Mapped(results) ==
            first_raise(results,
                        IF Len(results) = 0
                        THEN BannerComponent("info", "No search results found", "magnifier")
                        ELSE Listed([i \in 1..Min(Len(results), BRAVE_MAX_RESULTS) |->
                                        brave_card(results[i])]))
        Parsed(blocks) == Mapped([i \in 1..Len(blocks) |-> json_loads(blocks[i].text)])
    IN  Parsed(IF raw.t = "list" THEN SelectSeq(raw.l, has_text) ELSE <<>>)

\* a map_brave_search without its try/except
map_brave_search_uncaught(raw) == brave_mapped(raw)

\* map_brave_search(data): raw is the RawResult passed as data
map_brave_search(raw) ==
    LET Caught(outcome) == IF IsRaise(outcome) THEN brave_error(outcome) ELSE outcome
    IN  Caught(brave_mapped(raw))

\* map_github_search, lines 91-119: the Card of one result
github_card(res) ==
    LET Card(full_name, raised, metadata, link, subtitle) ==
            IF raised # None THEN raised
            ELSE IF IsRaise(link) THEN link
            ELSE IF IsRaise(subtitle) THEN subtitle
            ELSE CardComponent(full_name, subtitle, "package",
                               IF Len(metadata) > 0 THEN PyList(metadata) ELSE None, link)
        Built(full_name, metadata, link, subtitle) ==
            Card(full_name, first_raise(metadata, None), metadata, link, subtitle)
        Metadata(stars, language, owner_login) ==
            (IF stars.t # "null"
             THEN <<KeyValueComponent(PyStr("[star] Stars"), PyStr(py_str(stars)))>> ELSE <<>>)
              \o (IF truthy(language)
                  THEN <<KeyValueComponent(PyStr("[laptop] Language"), language)>> ELSE <<>>)
              \o (IF truthy(owner_login)
                  THEN <<KeyValueComponent(PyStr("[person] Owner"), owner_login)>> ELSE <<>>)
        Login(owner) ==
            IF owner.t = "dict" THEN dict_get(owner.d, "login", PyStr("Unknown"))
            ELSE PyStr("Unknown")
        Link(url) == IF truthy(url) THEN LinkComponent(PyStr("View on GitHub"), url) ELSE None
        Named(inner) ==
            IF IsRaise(inner) THEN inner
            ELSE Built(dict_get(res.d, "full_name", dict_get(res.d, "name", inner)),
                       Metadata(dict_get(res.d, "stargazers_count", PyInt(0)),
                                dict_get(res.d, "language", PyStr("Unknown")),
                                Login(dict_get(res.d, "owner", PyDict(<<>>)))),
                       Link(dict_get(res.d, "html_url", PyStr(""))),
                       subtitle_of(dict_get(res.d, "description", PyStr(""))))
    IN  Named(get_or_raise(res, "full_name", PyStr("Unknown")))

\* the except clause of map_github_search, lines 125-132
github_error(e) ==
    BannerComponent("error", "Error mapping GitHub results: " \o Prefix(e.msg, ERROR_LEN), "warning")

\* map_github_search, lines 61-79: `results`, or the exception raised by len(results)
github_results(raw) ==
    LET Found(items) ==
            IF items.t \in {"list", "dict", "str"} THEN items
            ELSE Raise("TypeError", "object of type '" \o type_name(items) \o "' has no len()")
        Response(response) ==
            IF ~IsRaise(response) /\ response.t = "dict" /\ has_key(response.d, "items")
            THEN Found(get_item(response.d, "items"))
            ELSE PyList(<<>>)
    IN  IF raw.t = "list" /\ Len(raw.l) > 0 /\ has_text(raw.l[1])
        THEN Response(json_loads(raw.l[1].text))
        ELSE PyList(<<>>)

\* results[:10] as a sequence of Python values (CPython 3.11's messages)
first_results(results, n) ==
    CASE results.t = "list" -> SubSeq(results.l, 1, Min(Len(results.l), n))
      [] results.t = "str"  -> [i \in 1..Min(Len(results.s), n) |-> PyStr(CharAt(results.s, i))]
      [] OTHER -> Raise("TypeError", "unhashable type: 'slice'")

\* map_github_search, lines 48-123: the body of the try, which returns a
\* Component or raises
github_mapped(raw) ==
    LET Listed(cards) == first_raise(cards, ListComponent(PyList(cards)))
        Cards(shown) == Listed([i \in 1..Len(shown) |-> github_card(shown[i])])
        Mapped(results) ==
            IF IsRaise(results) THEN results
            ELSE IF ~truthy(results)
                 THEN BannerComponent("info", "No repositories found", "package")
            ELSE IF results.t = "dict" THEN first_results(results, GITHUB_MAX_RESULTS)
            ELSE Cards(first_results(results, GITHUB_MAX_RESULTS))
    IN  Mapped(github_results(raw))

\* map_github_search(data): raw is the RawResult passed as data
map_github_search(raw) ==
    LET Caught(outcome) == IF IsRaise(outcome) THEN github_error(outcome) ELSE outcome
    IN  Caught(github_mapped(raw))

\* the except clause of route_to_components, lines 52-57
routing_error(e) ==
    BannerComponent("error", "Error routing result: " \o Prefix(e.msg, ERROR_LEN), "warning")

\* a raw preview that would never truncate
raw_preview_untruncated(raw) ==
    BannerComponent("info",
                    IF raw.t = "list" /\ Len(raw.l) > 0
                    THEN IF has_text(raw.l[1]) THEN raw.l[1].text ELSE py_str(raw.l[1])
                    ELSE json_dumps_indent2(raw),
                    "page")

\* route_to_components, lines 31-50: the raw preview of a result no override takes
raw_preview(raw) ==
    LET Banner(text) ==
            BannerComponent("info",
                            IF Len(text) > ROUTER_TEXT_LEN
                            THEN Prefix(text, ROUTER_TEXT_LEN) \o "..."
                            ELSE text,
                            "page")
    IN  Banner(IF raw.t = "list" /\ Len(raw.l) > 0
               THEN IF has_text(raw.l[1]) THEN raw.l[1].text ELSE py_str(raw.l[1])
               ELSE json_dumps_indent2(raw))

\* a router that would fall back to generic inference when an override
\* returns a Banner
route_to_components_falling_back(raw, tool) ==
    LET Fallback(component) ==
            IF component.component = "banner" THEN bind_data(raw) ELSE component
    IN  IF tool = PyStr("brave_web_search") THEN Fallback(map_brave_search(raw))
        ELSE IF tool = PyStr("search_repositories") THEN Fallback(map_github_search(raw))
        ELSE raw_preview(raw)

\* route_to_components(data, tool_name): tool is None or a str
route_to_components(raw, tool) ==
    LET Caught(component) == IF IsRaise(component) THEN routing_error(component) ELSE component
    IN  Caught(IF tool = PyStr("brave_web_search") THEN map_brave_search(raw)
               ELSE IF tool = PyStr("search_repositories") THEN map_github_search(raw)
               ELSE raw_preview(raw))

---------------------------------------------------------------------------
(* The inputs offered to the engine *)

MaxItems == 22   \* longest sequence of objects or of content blocks
MaxWide == 12    \* most fields of one object
MaxHits == 11    \* most results in a search response
MaxText == 502   \* longest text

RECURSIVE Repeat(_, _)
\* s repeated k times
Repeat(s, k) ==
    IF k = 0 THEN ""
    ELSE IF k % 2 = 1 THEN Repeat(s, k - 1) \o s
    ELSE Repeat(s \o s, k \div 2)

\* a text of n characters, no two neighbours alike
Text(n) == Repeat("abcdefghij", n \div 10) \o Prefix("abcdefghij", n % 10)

TextLens ==
    {0, 3, 4, PREVIEW_ITEM_LEN, PREVIEW_ITEM_LEN + 1, ERROR_LEN, ERROR_LEN + 1,
     MAX_VALUE_LEN, MAX_VALUE_LEN + 1, ROUTER_TEXT_LEN - 2, ROUTER_TEXT_LEN - 1,
     ROUTER_TEXT_LEN, ROUTER_TEXT_LEN + 1, MaxText}

\* fields of every class the classifier tells apart, under distinct keys
FieldPool ==
    << Entry("id", PyInt(42)),
       Entry("name", PyStr("Widget")),
       Entry("html_url", PyStr("https://example.com/w")),
       Entry("active", PyBool(TRUE)),
       Entry("description", PyStr("<b>Bold</b> &amp; plain")),
       Entry("created_at", PyStr("2024-01-01")),
       Entry("stars", PyInt(1500)),
       Entry("owner", PyDict(<<Entry("login", PyStr("octocat")), Entry("id", PyInt(7))>>)),
       Entry("homepage", PyStr("http://w.example.org")),
       Entry("sha", PyStr("a1b2c3")),
       Entry("tags", PyList(<<PyStr("a"), PyStr("b")>>)),
       Entry("notes", PyStr("")),
       Entry("license", None),
       Entry("score", PyFloat(4, "5")),
       Entry("link_count", PyInt(3)),
       Entry("User_ID", PyStr("u-1")) >>

\* the object holding n fields of the pool from the i-th on
Window(i, n) == PyDict([j \in 1..n |-> FieldPool[((i + j - 2) % Len(FieldPool)) + 1]])

\* an object of n fields that are all displayed
Wide(n) == PyDict([j \in 1..n |-> Entry("field_" \o int_str(j), PyInt(j))])

\* a named object of n displayed fields with two URL fields and one more
\* displayed field after them
Capped(n) ==
    PyDict(<<Entry("name", PyStr("capped"))>> \o Wide(n).d
              \o <<Entry("url", PyStr("https://late.example")), Entry("extra", PyInt(1)),
                    Entry("docs_link", PyStr("https://docs.example"))>>)

Item(i) == PyDict(<<Entry("name", PyStr("item" \o int_str(i))), Entry("rank", PyInt(i))>>)
Items(n) == PyList([i \in 1..n |-> Item(i)])
Scalars(n) == PyList([i \in 1..n |-> PyInt(i)])

Objects ==
    {Window(i, n) : i \in 1..Len(FieldPool), n \in 0..MaxWide}
      \cup {Wide(n) : n \in 1..MaxWide}
      \cup {Capped(n) : n \in {MAX_FIELDS - 2, MAX_FIELDS - 1, MAX_FIELDS}}
      \cup {PyDict(<<Entry("message", PyStr(Text(n)))>>) : n \in TextLens}
      \cup {PyDict(<<Entry("total", PyInt(n)), Entry(key, Items(n))>>) :
                n \in {0, 1, MaxItems}, key \in {"items", "results", "rows"}}
      \cup {PyDict(<<Entry("items", PyList(<<Item(1), PyInt(5)>>))>>),
            PyDict(<<Entry("items", PyInt(5)), Entry("results", Items(2))>>),
            PyDict(<<Entry("results", Items(1)), Entry("items", Items(2))>>),
            PyDict(<<Entry("items", PyList(<<Item(1), PyInt(5)>>)), Entry("results", Items(2))>>),
            PyDict(<<Entry("items", Scalars(2)), Entry("results", Items(MaxItems))>>),
            PyDict(<<Entry("title", PyDict(<<Entry("text", PyStr("Nested"))>>)),
                     Entry("count", PyStr("seven"))>>),
            PyDict(<<Entry("title", PyStr("")), Entry("name", None), Entry("id", PyInt(42)),
                     Entry("url", PyStr("https://x.example")), Entry("stars", PyInt(5)),
                     Entry("notes", PyStr("n"))>>),
            PyDict(<<Entry("count", PyInt(3)), Entry("full_name", PyStr("octo/repo")),
                     Entry("name", PyInt(0)), Entry("title", PyList(<<>>)),
                     Entry("link", PyStr("https://a.example"))>>),
            PyDict(<<Entry("name", PyStr("n")), Entry("title", PyInt(7)), Entry("a", PyInt(1)),
                     Entry("b", PyInt(2)), Entry("c", PyInt(3))>>)}

Sequences ==
    {Items(n) : n \in 0..MaxItems}
      \cup {Scalars(n) : n \in 1..(PREVIEW_ITEMS + 2)}
      \cup {PyList(<<PyStr(Text(n)), PyStr("x")>>) : n \in TextLens}
      \cup {PyList([i \in 1..MaxItems |-> Wide(MaxWide)]),
            PyList(<<Item(1), PyInt(5)>>),
            PyList(<<PyInt(5), Item(1)>>),
            PyList(<<Item(1), PyStr("plain")>>),
            PyList(<<Window(1, 6), Window(3, 2)>>),
            PyList(<<None>>),
            PyList(<<PyList(<<PyInt(1)>>)>>)}

Scalar ==
    {None, PyBool(TRUE), PyBool(FALSE), PyInt(7), PyInt(1500), PyFloat(2, "5")}
      \cup {PyStr(Text(n)) : n \in TextLens}
      \cup {PyStr("not json"), PyStr("<p>Hello <b>world</b></p>")}

\* the JSON values a tool can answer with
JSONValues == Objects \cup Sequences \cup Scalar

\* an MCP text content block carrying the JSON text of v
Block(v) == TextContent(json_dumps(v))

BraveHit(i) ==
    PyDict(<<Entry("title", PyStr("Result " \o int_str(i))),
             Entry("description", PyStr("About topic " \o int_str(i))),
             Entry("url", PyStr("https://site" \o int_str(i) \o ".example/p"))>>)

Repo(i) ==
    PyDict(<<Entry("name", PyStr("repo" \o int_str(i))),
             Entry("full_name", PyStr("octo/repo" \o int_str(i))),
             Entry("description", PyStr("Repository " \o int_str(i))),
             Entry("html_url", PyStr("https://github.com/octo/repo" \o int_str(i))),
             Entry("stargazers_count", PyInt(1000 * i)),
             Entry("language", PyStr("Python")),
             Entry("owner", PyDict(<<Entry("login", PyStr("octo"))>>))>>)

GithubResponse(repos) ==
    PyList(<<Block(PyDict(<<Entry("total_count", PyInt(Len(repos))),
                            Entry("items", PyList(repos))>>))>>)

\* sequences of content blocks, as an MCP server returns them
BlockResults ==
    {PyList(<<Block(v)>>) : v \in JSONValues}
      \cup {PyList([i \in 1..n |-> Block(Item(i))]) : n \in 2..MaxItems}
      \cup {PyList([i \in 1..n |-> Block(BraveHit(i))]) : n \in 1..MaxHits}
      \cup {GithubResponse([i \in 1..n |-> Repo(i)]) : n \in 0..MaxHits}
      \cup {PyList(<<TextContent(Text(n))>>) : n \in TextLens}
      \cup {PyList(<<TextContent("not json")>>),
            PyList(<<Block(Item(1)), TextContent("not json")>>),
            PyList(<<TextContent("not json"), Block(Item(1))>>),
            PyList(<<TextContent("not json"), TextContent("{broken")>>),
            PyList(<<Block(PyInt(1)), Block(PyStr("two")), Block(None)>>),
            PyList(<<Block(BraveHit(1)), Block(PyInt(5))>>),
            PyList(<<Block(PyDict(<<Entry("title", PyInt(5))>>))>>),
            GithubResponse(<<Repo(1), PyInt(5)>>),
            GithubResponse(<<PyDict(<<Entry("name", PyStr("bare"))>>)>>),
            GithubResponse(<<PyDict(<<Entry("language", PyInt(5))>>)>>)}

\* everything the engine is invoked on
RawResults == JSONValues \cup BlockResults

\* the tool identifiers the router is given
ToolNames ==
    {None, PyStr("brave_web_search"), PyStr("search_repositories"), PyStr("read_file")}

---------------------------------------------------------------------------
(* Concurrent invocations (spec.md: "safe to invoke concurrently from
   multiple threads").  Every call of bind_data, of an override or of the
   router runs in a frame of its own: its arguments and its locals.  The
   binder has no module-level variable, and strip_html makes a new
   HTMLStripper on every call (line 61), so a frame is all an invocation
   reads and writes. *)

Threads == {"t1", "t2"}

\* a thread that runs no invocation
NoFrame ==
    [pc |-> "idle", fn |-> "", tool_name |-> None, data |-> Unset, parsed_data |-> Unset,
     result |-> Unset, last |-> FALSE]

(* The gateway (gateway/mcp_gateway.py).  A dict is a function whose domain
   is the set of its keys. *)

EmptyDict == [k \in {} |-> None]

\* d[k] = v
Put(d, k, v) == [x \in DOMAIN d \cup {k} |-> IF x = k THEN v ELSE d[x]]

\* the servers of the configuration (mcp_config.py:134-142), and those whose
\* configuration has credentials, which toggle_server tests before it
\* switches them on
Servers == {"github", "filesystem"}

WithCredentials == {"github"}

\* execute_tool before any call
NoExecution ==
    [pc |-> "idle", tool_name |-> "", server_name |-> "", result |-> Unset, closed |-> FALSE]

\* MCPGateway.__init__, lines 14-20; nothing runs
GatewayInit ==
    /\ sessions = EmptyDict
    /\ stdio_tasks = EmptyDict
    /\ connection_ready = EmptyDict
    /\ tools_cache = EmptyDict
    /\ tool_to_server = EmptyDict
    /\ tasks = <<>>
    /\ events = {}
    /\ close_all = [pc |-> "idle", gathered |-> {}]
    /\ execution = NoExecution
    /\ enabled = [name \in WithCredentials |-> TRUE]

\* WisprActionsApp.__init__ (app.py:341-344), MicrophoneDisplay and
\* AudioCapture as constructed: nothing is recorded, no timer, no worker
AppInit ==
    /\ mic_is_recording = FALSE
    /\ capture_is_recording = FALSE
    /\ streams = 0
    /\ v_key_held = FALSE
    /\ timers = <<>>
    /\ release_timer = 0
    /\ workers = <<>>
    /\ current_processing_task = 0

OthersInit ==
    /\ frames = [t \in Threads |-> NoFrame]
    /\ GatewayInit
    /\ AppInit

---------------------------------------------------------------------------
(* The engine as a state machine: an invocation runs from "idle" and puts
   what it returns in result; Return hands it to the caller. *)

Init ==
    /\ data \in RawResults
    /\ tool_name = None
    /\ op = "idle"
    /\ parsed_data = Unset
    /\ result = Unset
    /\ prior = Unset
    /\ OthersInit

\* bind_data(data)
BindData ==
    /\ op = "idle"
    /\ op' = "bind_data"
    /\ parsed_data' = unwrap_content(data)
    /\ result' = bind_data(data)
    /\ UNCHANGED <<data, tool_name, prior, others>>

\* route_to_components(data, tool)
RouteToComponents(tool) ==
    /\ op = "idle"
    /\ op' = "route_to_components"
    /\ tool_name' = tool
    /\ result' = route_to_components(data, tool)
    /\ UNCHANGED <<data, parsed_data, prior, others>>

\* map_brave_search(data)
MapBraveSearch ==
    /\ op = "idle"
    /\ op' = "map_brave_search"
    /\ result' = map_brave_search(data)
    /\ UNCHANGED <<data, tool_name, parsed_data, prior, others>>

\* map_github_search(data)
MapGithubSearch ==
    /\ op = "idle"
    /\ op' = "map_github_search"
    /\ result' = map_github_search(data)
    /\ UNCHANGED <<data, tool_name, parsed_data, prior, others>>

\* CardComponent(title="Result", metadata=data): a caller passing a sequence of its own
NewCardComponent ==
    /\ op = "idle"
    /\ data.t = "list"
    /\ op' = "CardComponent"
    /\ result' = CardComponent(PyStr("Result"), None, "clipboard", data, None)
    /\ UNCHANGED <<data, tool_name, parsed_data, prior, others>>

\* ListComponent(items=data): a caller passing a sequence of its own
NewListComponent ==
    /\ op = "idle"
    /\ data.t = "list"
    /\ op' = "ListComponent"
    /\ result' = ListComponent(data)
    /\ UNCHANGED <<data, tool_name, parsed_data, prior, others>>

\* the invocation returns: its locals are gone, the engine keeps nothing
\* (prior remembers, for the record only, what bind_data returned first)
Return ==
    /\ op # "idle"
    /\ op' = "idle"
    /\ tool_name' = None
    /\ parsed_data' = Unset
    /\ result' = Unset
    /\ prior' = IF op = "bind_data" /\ prior = Unset THEN result ELSE prior
    /\ UNCHANGED <<data, others>>

Next ==
    \/ BindData
    \/ \E tool \in ToolNames : RouteToComponents(tool)
    \/ MapBraveSearch
    \/ MapGithubSearch
    \/ NewCardComponent
    \/ NewListComponent
    \/ Return

Spec == Init /\ [][Next]_vars

---------------------------------------------------------------------------
(* The helpers of the binder called on their own (truncate_text,
   should_skip_field, is_url_field, infer_icon), as the unit tests call
   them.  Here data holds the arguments of the one call: text and
   max_length, key and value, or the object passed as data. *)

MaxShort == 6    \* longest of the short texts and limits

\* lengths around every limit on offer
ShortLens == 0..MaxShort \cup {MAX_VALUE_LEN - 1, MAX_VALUE_LEN, MAX_VALUE_LEN + 1}

\* truncate_text(text, max_length): a str or another value, and a limit from 0 up
TruncateCalls ==
    {[text |-> PyStr(Text(n)), max_length |-> m] : n \in ShortLens, m \in ShortLens}
      \cup {[text |-> v, max_length |-> m] : v \in {None, PyInt(1500), PyBool(TRUE)}, m \in {0, 2, 4}}

FieldKeys ==
    {"id", "ID", "Id", "_id", "user_id", "User_ID", "USER_ID", "id_", "idea", "valid", "userid",
     "at", "_at", "created_at", "Updated_At", "format", "at_home", "_AT",
     "node_id", "sha", "SHA", "etag", "ETag", "gravatar_id", "shas", "hash_sha",
     "url", "URL", "html_url", "Link", "links", "href", "HREF", "hyperlink", "curl", "ur_l",
     "homepage", "name", "count", ""}

FieldValues ==
    {None, PyBool(TRUE), PyBool(FALSE), PyInt(0), PyInt(1), PyFloat(2, "5"),
     PyStr(""), PyStr("plain"), PyStr("http://x"), PyStr("https://x.example/p"),
     PyStr("HTTP://X"), PyStr("ftp://x"), PyStr("see http://x"), PyStr("http:/x"), PyStr("https"),
     PyList(<<PyStr("http://x")>>), PyList(<<>>),
     PyDict(<<Entry("url", PyStr("http://x"))>>)}

\* should_skip_field(key, value) and is_url_field(key, value)
FieldCalls == {[key |-> k, value |-> v] : k \in FieldKeys, v \in FieldValues}

IconKeys ==
    {"repo", "repository", "github", "search", "query", "results", "file", "document", "path",
     "user", "author", "owner", "error", "exception",
     "Repo", "GITHUB", "Query", "repos", "my_repo", "username", "file_path", "filename",
     "error_code", "owners", "name"}

\* infer_icon(data): objects of up to two keys in either order, and objects
\* that hold a rule's name below the top level or as a value
IconCalls ==
    {PyDict(<<>>)}
      \cup {PyDict(<<Entry(k, PyInt(1))>>) : k \in IconKeys}
      \cup {PyDict(<<Entry(k[1], PyInt(1)), Entry(k[2], PyStr("x"))>>) :
                k \in {p \in IconKeys \X IconKeys : p[1] # p[2]}}
      \cup {PyDict(<<Entry("meta", PyDict(<<Entry("repo", PyStr("octo/r"))>>))>>),
            PyDict(<<Entry("kind", PyStr("repo")), Entry("note", PyStr("github search error"))>>),
            PyDict(<<Entry("list", PyList(<<PyDict(<<Entry("user", PyStr("u"))>>)>>)),
                     Entry("exception", None)>>)}

HelperInit ==
    /\ data \in TruncateCalls \cup FieldCalls \cup IconCalls
    /\ tool_name = None
    /\ op = "idle"
    /\ parsed_data = Unset
    /\ result = Unset
    /\ prior = Unset
    /\ OthersInit

\* truncate_text(text, max_length)
TruncateText ==
    /\ op = "idle"
    /\ "max_length" \in DOMAIN data
    /\ op' = "truncate_text"
    /\ result' = PyStr(truncate_text(data.text, data.max_length))
    /\ UNCHANGED <<data, tool_name, parsed_data, prior, others>>

\* should_skip_field(key, value)
ShouldSkipField ==
    /\ op = "idle"
    /\ "key" \in DOMAIN data
    /\ op' = "should_skip_field"
    /\ result' = PyBool(should_skip_field(data.key, data.value))
    /\ UNCHANGED <<data, tool_name, parsed_data, prior, others>>

\* is_url_field(key, value)
IsUrlField ==
    /\ op = "idle"
    /\ "key" \in DOMAIN data
    /\ op' = "is_url_field"
    /\ result' = PyBool(is_url_field(data.key, data.value))
    /\ UNCHANGED <<data, tool_name, parsed_data, prior, others>>

\* infer_icon(data)
InferIcon ==
    /\ op = "idle"
    /\ "d" \in DOMAIN data
    /\ op' = "infer_icon"
    /\ result' = PyStr(infer_icon(data))
    /\ UNCHANGED <<data, tool_name, parsed_data, prior, others>>

HelperNext ==
    \/ TruncateText
    \/ ShouldSkipField
    \/ IsUrlField
    \/ InferIcon
    \/ Return

HelperSpec == HelperInit /\ [][HelperNext]_vars

---------------------------------------------------------------------------
(* Concurrent invocations as a state machine: a thread calls a function on
   one of the results, runs it step by step and returns; the steps of the
   threads interleave in any order.  frames[t].last marks, for the record
   only, the frame whose unwrapping step ran last. *)

\* the results the threads are handed; two threads may be handed the same
SharedResults ==
    {PyList(<<Block(Item(1))>>),
     PyList(<<Block(BraveHit(1)), Block(BraveHit(2))>>),
     GithubResponse(<<Repo(1)>>),
     PyList(<<Block(PyDict(<<Entry("description", PyStr("<b>Bold</b> &amp; plain")),
                             Entry("stars", PyInt(1500))>>))>>),
     PyList(<<Item(1), PyStr("plain")>>),
     PyStr("<p>Hello <b>world</b></p>")}

\* the local parsed_data that the mapping step of thread t would read, were
\* parsed_data a module-level variable: what the last unwrapping step wrote
parsed_data_shared(t) ==
    IF \E u \in Threads : frames[u].last
    THEN frames[CHOOSE u \in Threads : frames[u].last].parsed_data
    ELSE frames[t].parsed_data

\* the local parsed_data that the mapping step of thread t reads (line 326)
parsed_data_of(t) == frames[t].parsed_data

\* no invocation of the binder outside the frames
BinderIdle ==
    /\ data = None
    /\ tool_name = None
    /\ op = "idle"
    /\ parsed_data = Unset
    /\ result = Unset
    /\ prior = Unset

ConcurrentInit ==
    /\ BinderIdle
    /\ OthersInit

\* thread t calls fn(raw) or route_to_components(raw, tool)
Call(t, fn, raw, tool) ==
    /\ frames[t].pc = "idle"
    /\ frames' = [frames EXCEPT ![t] = [NoFrame EXCEPT !.pc = "called", !.fn = fn,
                                                       !.data = raw, !.tool_name = tool]]
    /\ UNCHANGED <<binder_vars, gateway_vars, app_vars>>

\* bind_data, lines 295-324: the unwrapping step of thread t
Unwrap(t) ==
    /\ frames[t].pc = "called"
    /\ frames[t].fn = "bind_data"
    /\ frames' = [u \in Threads |->
                    IF u = t
                    THEN [frames[t] EXCEPT !.pc = "unwrapped",
                                           !.parsed_data = unwrap_content(frames[t].data),
                                           !.last = TRUE]
                    ELSE [frames[u] EXCEPT !.last = FALSE]]
    /\ UNCHANGED <<binder_vars, gateway_vars, app_vars>>

\* bind_data, lines 326-409: the mapping step of thread t
Map(t) ==
    LET Caught(component) == IF IsRaise(component) THEN binding_error(component) ELSE component
    IN  /\ frames[t].pc = "unwrapped"
        /\ frames' = [frames EXCEPT ![t].pc = "done",
                                    ![t].result = Caught(map_structure(parsed_data_of(t)))]
        /\ UNCHANGED <<binder_vars, gateway_vars, app_vars>>

\* an override or the router runs in thread t
Run(t) ==
    /\ frames[t].pc = "called"
    /\ frames[t].fn # "bind_data"
    /\ frames' = [frames EXCEPT
                    ![t].pc = "done",
                    ![t].result =
                        CASE frames[t].fn = "map_brave_search" -> map_brave_search(frames[t].data)
                          [] frames[t].fn = "map_github_search" -> map_github_search(frames[t].data)
                          [] OTHER -> route_to_components(frames[t].data, frames[t].tool_name)]
    /\ UNCHANGED <<binder_vars, gateway_vars, app_vars>>

\* the invocation of thread t returns and its frame is gone
Finish(t) ==
    /\ frames[t].pc = "done"
    /\ frames' = [frames EXCEPT ![t] = NoFrame]
    /\ UNCHANGED <<binder_vars, gateway_vars, app_vars>>

ConcurrentNext ==
    \/ \E t \in Threads, raw \in SharedResults :
          \E fn \in {"bind_data", "map_brave_search", "map_github_search"} :
              Call(t, fn, raw, None)
    \/ \E t \in Threads, raw \in SharedResults, tool \in ToolNames :
          Call(t, "route_to_components", raw, tool)
    \/ \E t \in Threads : Unwrap(t)
    \/ \E t \in Threads : Map(t)
    \/ \E t \in Threads : Run(t)
    \/ \E t \in Threads : Finish(t)

ConcurrentSpec == ConcurrentInit /\ [][ConcurrentNext]_vars

---------------------------------------------------------------------------
(* The gateway as a state machine.  Everything runs on one asyncio event
   loop: a step is what a coroutine does between two awaits, and the steps
   of the coroutines interleave in any order.  The servers are the
   environment: a connection comes up or fails, a server lists the tools it
   has at that moment, a tool call returns or raises. *)

MaxTasks == 2

\* the tools a server may list when asked (line 64); a server's tools change
\* with its version and its credentials, and a result without 'tools' is []
Listings(name) ==
    IF name = "github"
    THEN {{"search_repositories", "get_issue"}, {"search_repositories"}}
    ELSE {{"read_file"}}

\* the tool names the intent parser may hand to execute_tool
CalledTools == {"get_issue", "read_file"}

TaskIds == 1 .. Len(tasks)

\* the tasks that have not terminated
Running == {id \in TaskIds : tasks[id].pc # "done"}

\* who calls connect_server.  connect_all (lines 22-28, called once, at
\* app.py:390) connects the enabled servers one after the other;
\* toggle_server (settings_screen.py:267-270) starts test_and_enable for a
\* server with credentials that is OFF; test_connection
\* (settings_screen.py:345-364) connects whenever it is called
MayConnect(name, caller) ==
    CASE caller = "connect_all" ->
            /\ name \in WithCredentials => enabled[name]
            /\ \A id \in 1 .. Len(tasks) :
                   tasks[id].caller = "connect_all" =>
                       tasks[id].name # name /\ tasks[id].wait # "waiting"
      [] caller = "test_and_enable" -> name \in WithCredentials /\ ~enabled[name]
      [] caller = "test_connection" -> TRUE

\* connect_server, lines 30-50, up to the await: a new event, a new task
\* that replaces the one stdio_tasks held for the name; the caller waits
ConnectServer(name, caller) ==
    LET id == Len(tasks) + 1
    IN  /\ Len(tasks) < MaxTasks
        /\ MayConnect(name, caller)
        /\ connection_ready' = Put(connection_ready, name, id)
        /\ stdio_tasks' = Put(stdio_tasks, name, id)
        /\ tasks' = Append(tasks, [name |-> name, pc |-> "connecting", must_cancel |-> FALSE,
                                   registered |-> FALSE, caller |-> caller, wait |-> "waiting",
                                   switched |-> ""])
        /\ close_all' = IF close_all.pc = "closed" THEN [close_all EXCEPT !.pc = "idle"]
                        ELSE close_all
        /\ UNCHANGED <<binder_vars, frames, app_vars, sessions, tools_cache, tool_to_server, events, execution, enabled>>

\* _maintain_connection, lines 58-75: the connection is up and the server
\* has listed its tools; the task registers them and sets the name's event
Register(id) ==
    LET name == tasks[id].name
    IN  /\ tasks[id].pc = "connecting"
        /\ ~tasks[id].must_cancel
        /\ \E tools \in Listings(name) :
              /\ sessions' = Put(sessions, name, id)
              /\ tools_cache' = Put(tools_cache, name, tools)
              /\ tool_to_server' = [x \in DOMAIN tool_to_server \cup tools |->
                                        IF x \in tools THEN name ELSE tool_to_server[x]]
        /\ events' = events \cup {connection_ready[name]}
        /\ tasks' = [tasks EXCEPT ![id].pc = "alive", ![id].registered = TRUE]
        /\ UNCHANGED <<binder_vars, frames, app_vars, stdio_tasks, connection_ready, close_all, execution, enabled>>

\* _maintain_connection, lines 83-87: the connection fails (the command
\* does not start, the credentials are refused); the name's event is set
\* all the same
Fail(id) ==
    LET name == tasks[id].name
    IN  /\ tasks[id].pc = "connecting"
        /\ ~tasks[id].must_cancel
        /\ events' = IF name \in DOMAIN connection_ready
                     THEN events \cup {connection_ready[name]} ELSE events
        /\ tasks' = [tasks EXCEPT ![id].pc = "done"]
        /\ UNCHANGED <<binder_vars, frames, app_vars, sessions, stdio_tasks, connection_ready, tools_cache, tool_to_server,
                       close_all, execution, enabled>>

\* _maintain_connection, lines 80-82: a cancelled task ends at its next await
Cancelled(id) ==
    /\ tasks[id].pc # "done"
    /\ tasks[id].must_cancel
    /\ tasks' = [tasks EXCEPT ![id].pc = "done"]
    /\ UNCHANGED <<binder_vars, frames, app_vars, sessions, stdio_tasks, connection_ready, tools_cache, tool_to_server,
                   events, close_all, execution, enabled>>

\* _test_and_enable_async, lines 306-334: what the settings screen does
\* when its connect_server call has returned
switch(name) == IF name \in DOMAIN sessions THEN "ON" ELSE "OFF"

\* connect_server returns to its caller, after the event (line 51) or after
\* the timeout (line 53); test_and_enable then switches the server
Returned(id) ==
    LET name == tasks[id].name
        Tested == tasks[id].caller = "test_and_enable"
    IN  /\ tasks' = [tasks EXCEPT ![id].wait = "returned",
                                  ![id].switched = IF Tested THEN switch(name) ELSE ""]
        /\ enabled' = IF Tested THEN [enabled EXCEPT ![name] = (switch(name) = "ON")]
                      ELSE enabled
        /\ UNCHANGED <<binder_vars, frames, app_vars, sessions, stdio_tasks, connection_ready, tools_cache, tool_to_server,
                       events, close_all, execution>>

\* connect_server, lines 50-51: the event the call created is set
Connected(id) ==
    /\ tasks[id].wait = "waiting"
    /\ id \in events
    /\ Returned(id)

\* connect_server, lines 52-53: 5 seconds have passed, the event is not set;
\* the task runs on
TimedOut(id) ==
    /\ tasks[id].wait = "waiting"
    /\ id \notin events
    /\ Returned(id)

\* toggle_server, lines 254-258: ON to OFF is a plain toggle
ToggleOff(name) ==
    /\ enabled[name]
    /\ enabled' = [enabled EXCEPT ![name] = FALSE]
    /\ UNCHANGED <<binder_vars, frames, app_vars, sessions, stdio_tasks, connection_ready, tools_cache, tool_to_server,
                   tasks, events, close_all, execution>>

\* close_all, lines 168-171
Cleared ==
    /\ sessions' = EmptyDict
    /\ stdio_tasks' = EmptyDict
    /\ tools_cache' = EmptyDict
    /\ tool_to_server' = EmptyDict

\* close_all, lines 160-166: cancel the tasks stdio_tasks holds and gather
\* them; with no task there is no await and the dicts are cleared at once
CloseAll ==
    LET held == {stdio_tasks[name] : name \in DOMAIN stdio_tasks}
    IN  /\ close_all.pc # "gathering"
        /\ tasks' = [id \in TaskIds |->
                        IF id \in held /\ tasks[id].pc # "done"
                        THEN [tasks[id] EXCEPT !.must_cancel = TRUE] ELSE tasks[id]]
        /\ IF held = {}
           THEN /\ Cleared
                /\ close_all' = [pc |-> "closed", gathered |-> {}]
           ELSE /\ close_all' = [pc |-> "gathering", gathered |-> held]
                /\ UNCHANGED <<sessions, stdio_tasks, tools_cache, tool_to_server>>
        /\ UNCHANGED <<binder_vars, frames, app_vars, connection_ready, events, execution, enabled>>

\* close_all, lines 166-171: every gathered task is done; clear and return
CloseAllReturns ==
    /\ close_all.pc = "gathering"
    /\ \A id \in close_all.gathered : tasks[id].pc = "done"
    /\ Cleared
    /\ close_all' = [pc |-> "closed", gathered |-> {}]
    /\ UNCHANGED <<binder_vars, frames, app_vars, connection_ready, tasks, events, execution, enabled>>

\* execute_tool without its try: what the server call raises leaves the call
execute_result_uncaught(tool, how, name) ==
    IF how = "raised" THEN Raise("Exception", "closed")
    ELSE CASE how = "unknown" ->
                [success |-> FALSE, message |-> "Unknown tool: " \o tool]
           [] how = "not connected" ->
                [success |-> FALSE, message |-> "Server not connected: " \o name]
           [] how = "returned" ->
                [success |-> TRUE, message |-> "Executed " \o tool, data |-> "content"]

\* execute_tool, lines 130-141 and 147-156: the dict the call returns
execute_result(tool, how, name) ==
    CASE how = "unknown" ->
            [success |-> FALSE, message |-> "Unknown tool: " \o tool]
      [] how = "not connected" ->
            [success |-> FALSE, message |-> "Server not connected: " \o name]
      [] how = "returned" ->
            [success |-> TRUE, message |-> "Executed " \o tool, data |-> "content"]
      [] how = "raised" ->
            [success |-> FALSE, message |-> "Error executing " \o tool \o ": closed"]

\* execute_tool, lines 128-145, up to the await of the server call
ExecuteTool(tool) ==
    LET name == IF tool \in DOMAIN tool_to_server THEN tool_to_server[tool] ELSE ""
        how == CASE name = "" -> "unknown"
                 [] name \notin DOMAIN sessions -> "not connected"
                 [] OTHER -> "calling"
    IN  /\ execution.pc # "calling"
        /\ execution' = [pc |-> IF how = "calling" THEN "calling" ELSE "returned",
                         tool_name |-> tool,
                         server_name |-> name,
                         result |-> IF how = "calling" THEN Unset
                                    ELSE execute_result(tool, how, name),
                         closed |-> close_all.pc = "closed"]
        /\ UNCHANGED <<binder_vars, frames, app_vars, sessions, stdio_tasks, connection_ready, tools_cache, tool_to_server,
                       tasks, events, close_all, enabled>>

\* execute_tool, lines 145-156: the server call returns or raises
CallTool(how) ==
    /\ execution.pc = "calling"
    /\ execution' = [execution EXCEPT
                        !.pc = "returned",
                        !.result = execute_result(execution.tool_name, how, execution.server_name)]
    /\ UNCHANGED <<binder_vars, frames, app_vars, sessions, stdio_tasks, connection_ready, tools_cache, tool_to_server,
                   tasks, events, close_all, enabled>>

GatewaySpecInit ==
    /\ BinderIdle
    /\ OthersInit

GatewayNext ==
    \/ \E name \in Servers : ConnectServer(name, "test_connection")
    \/ \E id \in TaskIds : Register(id)
    \/ \E id \in TaskIds : Fail(id)
    \/ \E id \in TaskIds : Cancelled(id)
    \/ \E id \in TaskIds : Connected(id)
    \/ \E id \in TaskIds : TimedOut(id)
    \/ CloseAll
    \/ CloseAllReturns
    \/ \E tool \in CalledTools : ExecuteTool(tool)
    \/ \E how \in {"returned", "raised"} : CallTool(how)

GatewaySpec == GatewaySpecInit /\ [][GatewayNext]_vars

(* The settings screen and the gateway: the servers are connected at the
   start, and the user switches a server with credentials OFF and ON while
   the screen is open. *)
SettingsNext ==
    \/ \E name \in Servers, caller \in {"connect_all", "test_and_enable"} :
          ConnectServer(name, caller)
    \/ \E id \in TaskIds : Register(id)
    \/ \E id \in TaskIds : Fail(id)
    \/ \E id \in TaskIds : Connected(id)
    \/ \E id \in TaskIds : TimedOut(id)
    \/ \E name \in WithCredentials : ToggleOff(name)

SettingsSpec == GatewaySpecInit /\ [][SettingsNext]_vars

---------------------------------------------------------------------------
(* Hold-to-speak (ui/app.py).  The terminal repeats the V key while it is
   held; every press re-arms a 0.2 s timer, and the timer's callback takes
   the key as released.  Presses and callbacks are handled one at a time by
   the app's message loop; a timer that has expired has its callback queued,
   and stopping it no longer takes the callback back. *)

MaxPresses == 4

\* a check_release that cancels nothing and does not run its worker exclusively
cancel_nothing(ws) == ws

\* Worker.cancel and run_worker(exclusive=True), lines 432-437: no worker
\* that ran before goes on running
cancel_unfinished(ws) ==
    [w \in DOMAIN ws |-> IF ws[w] = "running" THEN "cancelled" ELSE ws[w]]

\* AudioCapture.start_recording, capture.py:32-57, called by
\* MicrophoneDisplay.start_recording, app.py:262-267
StartRecording ==
    /\ mic_is_recording' = TRUE
    /\ capture_is_recording' = TRUE
    /\ streams' = IF capture_is_recording THEN streams ELSE streams + 1

\* AudioCapture.stop_recording, capture.py:59-80, called by
\* MicrophoneDisplay.stop_recording, app.py:269-274
StopRecording ==
    /\ mic_is_recording' = FALSE
    /\ capture_is_recording' = FALSE
    /\ streams' = IF capture_is_recording THEN 0 ELSE streams

\* action_hold_to_speak, lines 404-419: a press of V
HoldToSpeak ==
    /\ Len(timers) < MaxPresses
    /\ IF ~mic_is_recording
       THEN StartRecording /\ v_key_held' = TRUE
       ELSE UNCHANGED <<mic_is_recording, capture_is_recording, streams, v_key_held>>
    /\ timers' = Append([t \in DOMAIN timers |->
                            IF t = release_timer /\ timers[t] = "armed" THEN "stopped"
                            ELSE timers[t]],
                        "armed")
    /\ release_timer' = Len(timers) + 1
    /\ UNCHANGED <<workers, current_processing_task>>
    /\ UNCHANGED <<binder_vars, frames, gateway_vars>>

\* 0.2 s have passed without the timer being stopped: its callback is due
Expire(t) ==
    /\ timers[t] = "armed"
    /\ timers' = [timers EXCEPT ![t] = "due"]
    /\ UNCHANGED <<mic_is_recording, capture_is_recording, streams, v_key_held, release_timer,
                   workers, current_processing_task>>
    /\ UNCHANGED <<binder_vars, frames, gateway_vars>>

\* check_release, lines 421-437: the callback of timer t
CheckRelease(t) ==
    /\ timers[t] = "due"
    /\ timers' = [timers EXCEPT ![t] = "done"]
    /\ IF mic_is_recording
       THEN /\ StopRecording
            /\ v_key_held' = FALSE
            /\ workers' = Append(cancel_unfinished(workers), "running")
            /\ current_processing_task' = Len(workers) + 1
       ELSE UNCHANGED <<mic_is_recording, capture_is_recording, streams, v_key_held,
                        workers, current_processing_task>>
    /\ UNCHANGED release_timer
    /\ UNCHANGED <<binder_vars, frames, gateway_vars>>

\* process_audio, lines 489-603: the worker returns, or ends at the await
\* at which its cancellation reaches it
WorkerEnds(w) ==
    /\ workers[w] \in {"running", "cancelled"}
    /\ workers' = [workers EXCEPT ![w] = "finished"]
    /\ UNCHANGED <<mic_is_recording, capture_is_recording, streams, v_key_held, timers,
                   release_timer, current_processing_task>>
    /\ UNCHANGED <<binder_vars, frames, gateway_vars>>

AppSpecInit ==
    /\ BinderIdle
    /\ OthersInit

AppNext ==
    \/ HoldToSpeak
    \/ \E t \in DOMAIN timers : Expire(t)
    \/ \E t \in DOMAIN timers : CheckRelease(t)
    \/ \E w \in DOMAIN workers : WorkerEnds(w)

AppSpec == AppSpecInit /\ [][AppNext]_vars

---------------------------------------------------------------------------
(* Properties of the engine, one group per claim of the specification. *)

IsComponent(c) == "component" \in DOMAIN c
IsBanner(c, type) == IsComponent(c) /\ c.component = "banner" /\ c.type = type
IsList(c) == IsComponent(c) /\ c.component = "list"
IsCard(c) == IsComponent(c) /\ c.component = "card"

\* the Cards of a component: the Card itself, or the Cards among a List's items
CardsIn(c) ==
    IF IsCard(c) THEN <<c>>
    ELSE IF IsList(c) THEN SelectSeq(c.items, IsCard)
    ELSE <<>>

\* the KeyValue fields of a Card
FieldsOf(card) == IF card.metadata = None THEN <<>> ELSE card.metadata.l

\* the objects the Cards of bind_data's result were made from, in order
SourcesOf(parsed, component) ==
    IF IsList(component)
    THEN IF parsed.t = "list" THEN parsed.l
         ELSE IF has_object_list(parsed, "items") THEN get_item(parsed.d, "items").l
         ELSE get_item(parsed.d, "results").l
    ELSE <<parsed>>

\* the Card has a KeyValue entry named after the key
Shown(card, key) ==
    \E f \in 1..Len(FieldsOf(card)) : FieldsOf(card)[f].key = format_field_name(key)

\* the raw result is a sequence of content blocks only
IsBlocks(raw) == raw.t = "list" /\ \A i \in 1..Len(raw.l) : has_text(raw.l[i])

\* the payloads of a sequence of content blocks, in block order
Payloads(raw) == [i \in 1..Len(raw.l) |-> decode_block(raw.l[i])]

Overrides == {PyStr("brave_web_search"), PyStr("search_repositories")}

\* C1: for every input bind_data returns a Component and never raises; when
\* an internal step faults (the mapping of the parsed data raises), what it
\* returns is an error-severity Banner.
C1_BindDataTotal ==
    op = "bind_data" =>
        /\ IsComponent(result)
        /\ result.component \in {"banner", "card", "list"}
        /\ IsRaise(map_structure(parsed_data)) => IsBanner(result, "error")

\* bind_data has returned the error Banner for a sequence that mixes
\* mappings with non-mappings
C1_Witness ==
    /\ op = "bind_data"
    /\ data.t = "list" /\ Len(data.l) > 1
    /\ data.l[1].t = "dict"
    /\ IsRaise(map_structure(parsed_data))
    /\ IsBanner(result, "error")

\* C2: every List returned by bind_data, map_brave_search or
\* map_github_search has at most 20 items, and every Card they return, at
\* top level or inside a List, has at most 10 KeyValue fields.
C2_Caps ==
    op \in {"bind_data", "map_brave_search", "map_github_search"} =>
        /\ IsList(result) => Len(result.items) <= 20
        /\ \A i \in 1..Len(CardsIn(result)) : Len(FieldsOf(CardsIn(result)[i])) <= 10

\* bind_data has cut a sequence of more than 20 objects of more than 10
\* fields each to 20 Cards of 10 fields
C2_Witness ==
    /\ op = "bind_data"
    /\ data.t = "list" /\ Len(data.l) > 20
    /\ data.l[1].t = "dict" /\ Len(data.l[1].d) > 10
    /\ IsList(result) /\ Len(result.items) = 20
    /\ Len(FieldsOf(result.items[1])) = 10

\* the skip rules as the specification words them
SkipRule(key, value) ==
    \/ value.t = "bool"
    \/ lower(key) = "id"
    \/ endswith(lower(key), "_id")
    \/ endswith(lower(key), "_at")
    \/ lower(key) \in {"node_id", "sha", "etag", "gravatar_id"}

\* C3: in whatever bind_data makes of an object (a Card, a 'Result' Card or
\* the single-field success Banner) a field that satisfies the skip rules
\* contributes no KeyValue entry and no 'Key: Value' message.
C3_SkippedFieldsNeverShown ==
    op = "bind_data" =>
        /\ \A i \in 1..Len(CardsIn(result)) :
              \A j \in 1..Len(SourcesOf(parsed_data, result)[i].d) :
                  SkipRule(SourcesOf(parsed_data, result)[i].d[j].k,
                           SourcesOf(parsed_data, result)[i].d[j].v)
                      => ~Shown(CardsIn(result)[i], SourcesOf(parsed_data, result)[i].d[j].k)
        /\ IsBanner(result, "success") /\ parsed_data.t = "dict" =>
              \A j \in 1..Len(parsed_data.d) :
                  SkipRule(parsed_data.d[j].k, parsed_data.d[j].v)
                      => ~startswith(result.message, format_field_name(parsed_data.d[j].k) \o ": ")

\* bind_data has made a Card with fields out of an object that holds a
\* boolean field and an 'id' field
C3_Witness ==
    /\ op = "bind_data"
    /\ IsCard(result) /\ Len(FieldsOf(result)) > 0
    /\ parsed_data.t = "dict"
    /\ \E j \in 1..Len(parsed_data.d) : parsed_data.d[j].v.t = "bool"
    /\ \E j \in 1..Len(parsed_data.d) : lower(parsed_data.d[j].k) = "id"

\* C4: in every Card bind_data returns, a field for which is_url_field is
\* true never appears among the Card's KeyValue fields.
C4_UrlExclusivity ==
    op = "bind_data" =>
        \A i \in 1..Len(CardsIn(result)) :
            \A j \in 1..Len(SourcesOf(parsed_data, result)[i].d) :
                is_url_field(SourcesOf(parsed_data, result)[i].d[j].k,
                             SourcesOf(parsed_data, result)[i].d[j].v)
                    => ~Shown(CardsIn(result)[i], SourcesOf(parsed_data, result)[i].d[j].k)

C6_ConstructorCaps ==
    /\ op = "CardComponent" /\ IsCard(result) => Len(FieldsOf(result)) <= 10
    /\ op = "ListComponent" /\ IsList(result) => Len(result.items) <= 20

\* C6: the constructors keep the sequence they are given, whole and in
\* order, whatever its length; the caps are those of the callers (C2).
C6_ConstructorsKeepAll ==
    /\ op = "CardComponent" => IsCard(result) /\ result.metadata = data
    /\ op = "ListComponent" => IsList(result) /\ result.items = data.l

\* ListComponent has been constructed from more than 20 items and holds
\* them all
C6_Witness ==
    /\ op = "ListComponent"
    /\ Len(data.l) > 20
    /\ IsList(result) /\ Len(result.items) = Len(data.l)

\* C7: for a sequence of n content blocks bind_data classifies the single
\* decoded payload when n = 1, the sequence of all n payloads in order when
\* n > 1 and null when n = 0; two or more object blocks give a List of one
\* Card per block in block order, up to 20.
C7_Unwrapping ==
    op = "bind_data" /\ IsBlocks(data) =>
        /\ Len(data.l) = 0 => parsed_data = None
        /\ Len(data.l) = 1 => parsed_data = Payloads(data)[1]
        /\ Len(data.l) > 1 => parsed_data = PyList(Payloads(data))
        /\ Len(data.l) > 1 /\ (\A i \in 1..Len(data.l) : Payloads(data)[i].t = "dict") =>
              /\ IsList(result)
              /\ Len(result.items) = Min(Len(data.l), 20)
              /\ \A i \in 1..Len(result.items) :
                    result.items[i] = object_to_card(Payloads(data)[i], 10)

\* C8: a content block whose text is not valid JSON is never surfaced as an
\* error by bind_data: alone, its text is the string classified; among
\* several blocks, the result is still no error Banner.
C8_DecodeFailureRecovered ==
    op = "bind_data" /\ IsBlocks(data)
      /\ (\E i \in 1..Len(data.l) : IsRaise(json_loads(data.l[i].text))) =>
        /\ ~IsBanner(result, "error")
        /\ Len(data.l) = 1 => parsed_data = PyStr(data.l[1].text)

\* C9: when the tool identifier matches an override, route_to_components
\* returns exactly what that override returns, on success and on failure;
\* on no path is the result that of generic inference.
C9_OverrideExclusive ==
    op = "route_to_components" =>
        /\ tool_name = PyStr("brave_web_search") => result = map_brave_search(data)
        /\ tool_name = PyStr("search_repositories") => result = map_github_search(data)
        /\ tool_name \notin Overrides => result = raw_preview(data)

\* the brave override has failed on a result that generic inference would
\* have bound, and the router has returned the override's error Banner
C9_Witness ==
    /\ op = "route_to_components"
    /\ tool_name = PyStr("brave_web_search")
    /\ IsBanner(result, "error")
    /\ ~IsBanner(bind_data(data), "error")
    /\ result # bind_data(data)

\* the text kept whole up to 500 characters, else cut to 500 and '...'
Cut500(text) == IF Len(text) <= 500 THEN text ELSE SubSeq(text, 1, 500) \o "..."

\* C10 as stated: with no override, the info Banner's message is the first
\* content block's text for a non-empty sequence of content blocks and
\* otherwise the JSON text of the whole input, cut at 500.
C10_RawPreviewAsStated ==
    op = "route_to_components" /\ tool_name \notin Overrides
      /\ (IsBlocks(data) \/ data.t # "list" \/ \A i \in 1..Len(data.l) : ~has_text(data.l[i])) =>
        /\ IsBanner(result, "info")
        /\ result.message = Cut500(IF IsBlocks(data) /\ Len(data.l) > 0 THEN data.l[1].text
                                   ELSE json_dumps_indent2(data))

\* C10: with no override, the info Banner's message is, for a non-empty
\* sequence, the text of its first element when that is a content block and
\* the string form of its first element otherwise; for every other input it
\* is the JSON text of the whole input; cut at 500.
C10_RawPreview ==
    op = "route_to_components" /\ tool_name \notin Overrides =>
        /\ IsBanner(result, "info")
        /\ result.icon = "page"
        /\ result.message =
              Cut500(IF data.t = "list" /\ Len(data.l) > 0
                     THEN IF has_text(data.l[1]) THEN data.l[1].text ELSE py_str(data.l[1])
                     ELSE json_dumps_indent2(data))

\* the router has previewed a bare sequence of several elements by the
\* string form of its first element, which is not the JSON text of the whole
C10_Witness ==
    /\ op = "route_to_components" /\ tool_name \notin Overrides
    /\ data.t = "list" /\ Len(data.l) > 1
    /\ ~has_text(data.l[1])
    /\ IsBanner(result, "info")
    /\ result.message = Cut500(py_str(data.l[1]))
    /\ result.message # Cut500(json_dumps_indent2(data))

\* what a content block decodes to: the JSON value, or the decoder's failure
Decodes(block) == json_loads(block.text)

\* the input holds no Brave result: it is no sequence, or none of its
\* elements is a content block that decodes
NoBraveItems(raw) ==
    raw.t # "list" \/ \A i \in 1..Len(raw.l) : has_text(raw.l[i]) => IsRaise(Decodes(raw.l[i]))

\* the input holds no GitHub result: it is no sequence or an empty one, or
\* its first element is no content block or does not decode, or what it
\* decodes to is no object with a non-empty 'items'
NoGithubItems(raw) ==
    \/ raw.t # "list"
    \/ Len(raw.l) = 0
    \/ ~has_text(raw.l[1])
    \/ IsRaise(Decodes(raw.l[1]))
    \/ Decodes(raw.l[1]).t # "dict"
    \/ ~has_key(Decodes(raw.l[1]).d, "items")
    \/ get_item(Decodes(raw.l[1]).d, "items") = PyList(<<>>)

\* C11: no provider override returns a List with zero items; whenever the
\* input holds no matching items (empty input, no decodable block, missing
\* or empty 'items') the override returns an info-severity Banner.
C11_NoEmptyList ==
    /\ op \in {"map_brave_search", "map_github_search"} /\ IsList(result) => Len(result.items) > 0
    /\ op = "map_brave_search" /\ NoBraveItems(data) => IsBanner(result, "info")
    /\ op = "map_github_search" /\ NoGithubItems(data) => IsBanner(result, "info")

\* C12: map_brave_search, map_github_search and route_to_components return
\* a Component for every input and never raise; when the body of an override
\* faults (a block that is not JSON, an item that is no mapping, a field of
\* the wrong type), what comes back, from the override and from the router
\* that dispatched to it, is an error-severity Banner.
C12_OverridesTotal ==
    /\ op \in {"map_brave_search", "map_github_search", "route_to_components"} =>
          /\ IsComponent(result)
          /\ result.component \in {"banner", "card", "list"}
    /\ (op = "map_brave_search" \/ (op = "route_to_components" /\ tool_name = PyStr("brave_web_search")))
          /\ IsRaise(brave_mapped(data)) => IsBanner(result, "error")
    /\ (op = "map_github_search" \/ (op = "route_to_components" /\ tool_name = PyStr("search_repositories")))
          /\ IsRaise(github_mapped(data)) => IsBanner(result, "error")

\* map_brave_search has returned the error Banner for a result that is no
\* mapping, after a first result that is one
C12_Witness ==
    /\ op = "map_brave_search"
    /\ data.t = "list" /\ Len(data.l) > 1
    /\ has_text(data.l[1]) /\ has_text(data.l[2])
    /\ ~IsRaise(Decodes(data.l[1])) /\ Decodes(data.l[1]).t = "dict"
    /\ ~IsRaise(Decodes(data.l[2])) /\ Decodes(data.l[2]).t # "dict"
    /\ IsRaise(brave_mapped(data))
    /\ IsBanner(result, "error")

\* the fault that the invocation in progress has converted into its error
\* Banner, or None when its body has returned a Component
Fault ==
    LET Raised(outcome) == IF IsRaise(outcome) THEN outcome ELSE None
    IN  CASE op = "bind_data" -> Raised(map_structure(parsed_data))
          [] op = "map_brave_search" -> Raised(brave_mapped(data))
          [] op = "map_github_search" -> Raised(github_mapped(data))
          [] OTHER -> None

\* the label each except clause puts before the diagnostic
Label ==
    CASE op = "bind_data" -> "Data binding error: "
      [] op = "map_brave_search" -> "Error mapping search results: "
      [] op = "map_github_search" -> "Error mapping GitHub results: "
      [] OTHER -> ""

\* C13 as stated: the message of the error Banner that bind_data or an
\* override makes of an internal fault has at most 100 characters.
C13_MessageAtMost100 ==
    Fault # None => IsBanner(result, "error") /\ Len(result.message) <= 100

\* C13: the message of the error Banner that bind_data or an override makes
\* of an internal fault is the clause's label followed by the first 100
\* characters of the fault's text: the diagnostic after the label has at
\* most 100 characters, the message up to 100 more than the label.
C13_DiagnosticTruncated ==
    Fault # None =>
        /\ IsBanner(result, "error")
        /\ result.message = Label \o SubSeq(Fault.msg, 1, Min(Len(Fault.msg), 100))
        /\ Len(result.message) <= Len(Label) + 100

\* map_brave_search has cut a fault's text of more than 100 characters to
\* its first 100, and the message is longer than 100 with the label
C13_Witness ==
    /\ op = "map_brave_search"
    /\ Fault # None
    /\ Len(Fault.msg) > 100
    /\ IsBanner(result, "error")
    /\ Len(result.message) = Len(Label) + 100

\* C14: truncate_text(s, n) for a str s and a limit n >= 0 returns s
\* unchanged when len(s) <= n, and otherwise the first n characters of s
\* followed by '...', a text of exactly n + 3 characters; with n = 0 and a
\* non-empty s the result is just '...'.
C14_Truncation ==
    op = "truncate_text" /\ data.text.t = "str" =>
        /\ result.t = "str"
        /\ Len(data.text.s) <= data.max_length => result.s = data.text.s
        /\ Len(data.text.s) > data.max_length =>
              /\ result.s = SubSeq(data.text.s, 1, data.max_length) \o "..."
              /\ Len(result.s) = data.max_length + 3
        /\ data.max_length = 0 /\ data.text.s # "" => result.s = "..."

\* truncate_text has cut a text longer than a limit above 0
C14_Witness ==
    /\ op = "truncate_text"
    /\ data.text.t = "str"
    /\ data.max_length > 0
    /\ Len(data.text.s) > data.max_length
    /\ Len(result.s) = data.max_length + 3
    /\ result.s # data.text.s

\* the last n characters of the text are the given ending
EndsIn(text, ending) ==
    Len(text) >= Len(ending) /\ SubSeq(text, Len(text) - Len(ending) + 1, Len(text)) = ending

\* the four conditions of the skip rule, each on its own
SkipConditions(key, value) ==
    << value \in {PyBool(TRUE), PyBool(FALSE)},
       lower(key) = "id" \/ EndsIn(lower(key), "_id"),
       EndsIn(lower(key), "_at"),
       lower(key) \in {"node_id", "sha", "etag", "gravatar_id"} >>

\* C15: should_skip_field(key, value) is true if and only if at least one
\* of these holds: value is a boolean; key, case-insensitively, equals 'id'
\* or ends with '_id'; key ends with '_at'; key is one of node_id, sha, etag,
\* gravatar_id.  Each condition suffices on its own, whichever of the others
\* hold, so the order of the checks does not matter.
C15_SkipRule ==
    op = "should_skip_field" =>
        /\ result = PyBool(\E c \in 1..4 : SkipConditions(data.key, data.value)[c])
        /\ \A c \in 1..4 : SkipConditions(data.key, data.value)[c] => result = PyBool(TRUE)

\* should_skip_field has skipped a field for its key alone, written in
\* upper case, the value being no boolean
C15_Witness ==
    /\ op = "should_skip_field"
    /\ data.key # lower(data.key)
    /\ data.value.t # "bool"
    /\ SkipConditions(data.key, data.value)[2]
    /\ ~SkipConditions(data.key, data.value)[3]
    /\ result = PyBool(TRUE)

\* C16: is_url_field(key, value) is true if and only if value is a string
\* and either key case-insensitively contains 'url', 'link' or 'href', or
\* value starts with 'http://' or 'https://'; for every value that is no
\* string it is false whatever the key.
C16_UrlRule ==
    op = "is_url_field" =>
        /\ result = PyBool(/\ data.value.t = "str"
                           /\ \/ \E name \in {"url", "link", "href"}, i \in 1..Len(data.key) :
                                     EndsIn(SubSeq(lower(data.key), 1, i), name)
                              \/ \E scheme \in {"http://", "https://"} :
                                     Len(data.value.s) >= Len(scheme)
                                         /\ SubSeq(data.value.s, 1, Len(scheme)) = scheme)
        /\ data.value.t # "str" => result = PyBool(FALSE)

\* is_url_field has turned down a value that is no string under a key that
\* names a URL
C16_Witness ==
    /\ op = "is_url_field"
    /\ data.value.t \in {"list", "dict", "int", "null"}
    /\ \E i \in 1..Len(data.key) : EndsIn(SubSeq(lower(data.key), 1, i), "url")
    /\ result = PyBool(FALSE)

\* the icon rules in their order of priority
IconRules ==
    << [names |-> {"repo", "repository", "github"}, glyph |-> "package"],
       [names |-> {"search", "query", "results"}, glyph |-> "magnifier"],
       [names |-> {"file", "document", "path"}, glyph |-> "page"],
       [names |-> {"user", "author", "owner"}, glyph |-> "person"],
       [names |-> {"error", "exception"}, glyph |-> "warning_emoji"] >>

\* the rules of which a lower-cased top-level key of the object is a name
RulesMatching(obj) ==
    {r \in 1..Len(IconRules) : \E i \in 1..Len(obj.d) : lower(obj.d[i].k) \in IconRules[r].names}

\* C17: infer_icon returns the glyph of the first rule, in the fixed order,
\* of which some lower-cased top-level key of the object is a name, and the
\* generic clipboard when there is none: of several matching rules the one
\* of highest priority wins wherever its key stands, and a name that is only
\* part of a key, or stands below the top level or in a value, matches
\* nothing.
C17_IconPriority ==
    op = "infer_icon" =>
        /\ RulesMatching(data) = {} => result = PyStr("clipboard")
        /\ \A r \in RulesMatching(data) :
              (\A q \in RulesMatching(data) : r <= q) => result = PyStr(IconRules[r].glyph)

\* infer_icon has given the glyph of the higher of two matching rules whose
\* key stands second in the object
C17_Witness ==
    /\ op = "infer_icon"
    /\ Len(data.d) = 2
    /\ \E r, q \in RulesMatching(data) :
          /\ r < q
          /\ lower(data.d[1].k) \in IconRules[q].names
          /\ lower(data.d[2].k) \in IconRules[r].names
          /\ result = PyStr(IconRules[r].glyph)

\* the object has the key, and its value is a non-empty sequence of objects
Qualifies(obj, key) ==
    /\ has_key(obj.d, key)
    /\ get_item(obj.d, key).t = "list"
    /\ Len(get_item(obj.d, key).l) > 0
    /\ \A i \in 1..Len(get_item(obj.d, key).l) : get_item(obj.d, key).l[i].t = "dict"

\* the fields of the object that survive filtering: neither null nor the
\* empty string, and not skipped
Survivors(obj) ==
    SelectSeq(obj.d, LAMBDA e : /\ e.v \notin {None, PyStr("")}
                                /\ \A c \in 1..4 : ~SkipConditions(e.k, e.v)[c])

\* the KeyValue a surviving field is displayed as
Displayed(e) ==
    [component |-> "keyvalue",
     key |-> format_field_name(e.k),
     value |-> truncate_text(PyStr(strip_html(PyStr(grid_value(e.v)))), 200)]

\* C18: for a single object with fewer than 5 keys and no qualifying 'items'
\* or 'results' sequence, bind_data returns the success Banner
\* '<Key>: <Value>' exactly when one field survives filtering, and in every
\* other case a Card titled 'Result' with the generic icon, the surviving
\* fields and no link.
C18_SmallObject ==
    op = "bind_data" /\ parsed_data.t = "dict" /\ Len(parsed_data.d) < 5
      /\ ~Qualifies(parsed_data, "items") /\ ~Qualifies(parsed_data, "results") =>
        IF Len(Survivors(parsed_data)) = 1
        THEN /\ IsBanner(result, "success")
             /\ result.message = Displayed(Survivors(parsed_data)[1]).key \o ": "
                                    \o Displayed(Survivors(parsed_data)[1]).value
        ELSE /\ IsCard(result)
             /\ result.title = "Result"
             /\ result.icon = "clipboard"
             /\ result.link = None
             /\ FieldsOf(result) = [i \in 1..Len(Survivors(parsed_data)) |->
                                       Displayed(Survivors(parsed_data)[i])]

\* the Cards of the first 20 objects of a sequence
CardsOf(objects) ==
    [i \in 1..Min(Len(objects), 20) |-> object_to_card(objects[i], 10)]

\* C19: an object whose 'items' is a non-empty sequence of objects is mapped
\* to the List of Cards of that sequence, whatever its other keys and
\* however many; 'results' is used the same way when 'items' does not
\* qualify; such an object is never shown as a Card or Banner of its own
\* fields.
C19_ItemsUnwrapped ==
    op = "bind_data" /\ parsed_data.t = "dict" =>
        /\ Qualifies(parsed_data, "items") =>
              IsList(result) /\ result.items = CardsOf(get_item(parsed_data.d, "items").l)
        /\ ~Qualifies(parsed_data, "items") /\ Qualifies(parsed_data, "results") =>
              IsList(result) /\ result.items = CardsOf(get_item(parsed_data.d, "results").l)

\* C20: a non-empty sequence is mapped by bind_data to a List of Cards
\* exactly when every element is a mapping (one Card per element, in order,
\* at most 20); a sequence with any element that is no mapping is shown as
\* the info preview Banner.
C20_SequenceOfObjects ==
    op = "bind_data" /\ parsed_data.t = "list" /\ Len(parsed_data.l) > 0 =>
        /\ IsList(result) <=> \A i \in 1..Len(parsed_data.l) : parsed_data.l[i].t = "dict"
        /\ IsList(result) => result.items = CardsOf(parsed_data.l)
        /\ (\E i \in 1..Len(parsed_data.l) : parsed_data.l[i].t # "dict") =>
              result = preview_banner(parsed_data.l)

\* the display string object_to_card's loop gives a field's value
CardDisplay(value) == truncate_text(PyStr(strip_html(card_value(value))), 200)

\* the display strings bind_data's result shows for a small object, in order
ShownValues ==
    IF IsBanner(result, "success")
    THEN <<SubSeq(result.message,
                  Len(Displayed(Survivors(parsed_data)[1]).key) + 3, Len(result.message))>>
    ELSE [i \in 1..Len(FieldsOf(result)) |-> FieldsOf(result)[i].value]

\* C21: for an object with fewer than 5 keys, the entries of the <5-key
\* path are those of the fields that object_to_card's loop does not skip
\* either, and each carries the display string that loop gives the field
\* (nested object: 'login' or 'name' sub-field before JSON text; grouping
\* for integers >= 1000 only; '[<count> items]'; sanitized, cut to 200).
C21_SameFieldLoop ==
    op = "bind_data" /\ parsed_data.t = "dict" /\ Len(parsed_data.d) < 5
      /\ (IsBanner(result, "success") \/ IsCard(result)) =>
        /\ Len(ShownValues) = Len(Survivors(parsed_data))
        /\ \A i \in 1..Len(ShownValues) :
              ShownValues[i] = CardDisplay(Survivors(parsed_data)[i].v)

\* the sequence bind_data classifies holds no object
NoObjects(parsed) ==
    parsed.t = "list" /\ Len(parsed.l) > 0 /\ \A i \in 1..Len(parsed.l) : parsed.l[i].t # "dict"

RECURSIVE CommaJoined(_, _)
\* the first n of the parts with ', ' between them
CommaJoined(parts, n) ==
    IF n = 0 THEN ""
    ELSE IF n = 1 THEN parts[1]
    ELSE CommaJoined(parts, n - 1) \o ", " \o parts[n]

\* the suffix that carries the true count of a sequence of more than 5
TotalSuffix(n) == IF n > 5 THEN "... (" \o int_str(n) \o " total)" ELSE ""

\* C22 as stated: for a sequence of N non-object elements the info Banner's
\* message is the complete string forms of the first min(5, N) elements
\* joined with ', ', and then '... (N total)' exactly when N > 5.
C22_PreviewComplete ==
    op = "bind_data" /\ NoObjects(parsed_data) =>
        /\ IsBanner(result, "info")
        /\ result.message =
              CommaJoined([i \in 1..Len(parsed_data.l) |-> py_str(parsed_data.l[i])],
                          Min(5, Len(parsed_data.l)))
                \o TotalSuffix(Len(parsed_data.l))

\* C22: for a sequence of N non-object elements the info Banner's message
\* is the first 50 characters of the string form of each of the first
\* min(5, N) elements, joined with ', ', and then '... (N total)' exactly
\* when N > 5.
C22_Preview ==
    op = "bind_data" /\ NoObjects(parsed_data) =>
        /\ IsBanner(result, "info")
        /\ result.message =
              CommaJoined([i \in 1..Len(parsed_data.l) |->
                              SubSeq(py_str(parsed_data.l[i]), 1,
                                     Min(50, Len(py_str(parsed_data.l[i]))))],
                          Min(5, Len(parsed_data.l)))
                \o TotalSuffix(Len(parsed_data.l))

\* bind_data has previewed a sequence whose first element has a string
\* form of more than 50 characters by the first 50 of them
C22_Witness ==
    /\ op = "bind_data"
    /\ NoObjects(parsed_data)
    /\ Len(parsed_data.l) > 1
    /\ Len(py_str(parsed_data.l[1])) > 50
    /\ IsBanner(result, "info")
    /\ result.message = SubSeq(py_str(parsed_data.l[1]), 1, 50) \o ", " \o py_str(parsed_data.l[2])

\* bind_data's result comes from the Card-builder: one Card per object of a
\* sequence, or the Card of an object of 5 keys or more
FromCardBuilder ==
    /\ op = "bind_data"
    /\ IsList(result) \/ (IsCard(result) /\ parsed_data.t = "dict" /\ Len(parsed_data.d) >= 5)

\* the position of the field that supplies the title, 0 when none does:
\* the first of title, name, full_name, id present with a truthy value, else
\* the first field that is a string of more than 3 and fewer than 100
\* characters
TitleField(obj) ==
    LET At(key) == CHOOSE i \in 1..Len(obj.d) : obj.d[i].k = key
        named == {n \in 1..4 : LET key == <<"title", "name", "full_name", "id">>[n]
                               IN  (\E i \in 1..Len(obj.d) : obj.d[i].k = key)
                                     /\ truthy(obj.d[At(key)].v)}
        short == {i \in 1..Len(obj.d) : /\ obj.d[i].v.t = "str"
                                        /\ Len(obj.d[i].v.s) > 3
                                        /\ Len(obj.d[i].v.s) < 100}
    IN  IF named # {}
        THEN At(<<"title", "name", "full_name", "id">>[CHOOSE n \in named : \A q \in named : n <= q])
        ELSE IF short # {} THEN CHOOSE i \in short : \A j \in short : i <= j
        ELSE 0

\* the positions of the fields of the object that are neither empty nor
\* skipped nor the title, in key order
Eligible(obj) ==
    {i \in 1..Len(obj.d) : /\ i # TitleField(obj)
                           /\ obj.d[i].v \notin {None, PyStr("")}
                           /\ \A c \in 1..4 : ~SkipConditions(obj.d[i].k, obj.d[i].v)[c]}

Candidates(obj, fields) == {i \in fields : ~is_url_field(obj.d[i].k, obj.d[i].v)}

\* the field is reached before collection stops: fewer than 10 KeyValue
\* candidates stand before it
Reached(obj, fields, i) == Cardinality({j \in Candidates(obj, fields) : j < i}) < 10

\* the Link made of the field at position i
LinkOf(obj, i) ==
    [component |-> "link",
     text |-> IF lower(obj.d[i].k) = "url" THEN "Open" ELSE format_field_name(obj.d[i].k),
     url |-> obj.d[i].v.s]

\* the Card has the one link and the KeyValues that collecting over
\* `fields` gives: the first URL field reached, and the first 10 KeyValue
\* candidates in key order
Collected(card, obj, fields) ==
    LET urls == {i \in fields : is_url_field(obj.d[i].k, obj.d[i].v) /\ Reached(obj, fields, i)}
        kept == SelectSeq([i \in 1..Len(obj.d) |-> i],
                          LAMBDA i : i \in Candidates(obj, fields) /\ Reached(obj, fields, i))
    IN  /\ card.link = (IF urls = {} THEN None
                        ELSE LinkOf(obj, CHOOSE i \in urls : \A j \in urls : i <= j))
        /\ Len(FieldsOf(card)) = Len(kept)
        /\ Len(FieldsOf(card)) <= 10
        /\ \A j \in 1..Len(kept) : FieldsOf(card)[j].key = format_field_name(obj.d[kept[j]].k)

\* the positions of the fields that are neither empty nor skipped, the
\* title's among them
Unskipped(obj) ==
    {i \in 1..Len(obj.d) : /\ obj.d[i].v \notin {None, PyStr("")}
                           /\ \A c \in 1..4 : ~SkipConditions(obj.d[i].k, obj.d[i].v)[c]}

Alone(frame) ==
    CASE frame.fn = "bind_data" -> bind_data(frame.data)
      [] frame.fn = "map_brave_search" -> map_brave_search(frame.data)
      [] frame.fn = "map_github_search" -> map_github_search(frame.data)
      [] OTHER -> route_to_components(frame.data, frame.tool_name)

Failure(message) == [success |-> FALSE, message |-> message]

\* C26: execute_tool raises no ordinary exception in any state of the
\* gateway.  A call that has returned holds a dict: the 'Unknown tool'
\* failure when the tool name was not in tool_to_server, the 'Server not
\* connected' failure when the mapped server had no session, a failure with
\* an error message when the server call raised, and success = TRUE only
\* when the server call returned; 'data' is a key exactly of the success.
C26_ExecuteToolTotal ==
    execution.pc = "returned" =>
        LET r == execution.result
            tool == execution.tool_name
        IN  /\ ~IsRaise(r)
            /\ DOMAIN r \in {{"success", "message"}, {"success", "message", "data"}}
            /\ execution.server_name = "" => r = Failure("Unknown tool: " \o tool)
            /\ r.success <=> "data" \in DOMAIN r
            /\ r.success => r.message = "Executed " \o tool
            /\ ~r.success =>
                  r \in {Failure("Unknown tool: " \o tool),
                         Failure("Server not connected: " \o execution.server_name),
                         Failure("Error executing " \o tool \o ": closed")}

\* a call whose server call raised, through a session whose task is done,
\* has returned the failure with the error message
C26_Witness ==
    /\ execution.pc = "returned"
    /\ execution.server_name \in DOMAIN sessions
    /\ tasks[sessions[execution.server_name]].pc = "done"
    /\ execution.result = Failure("Error executing " \o execution.tool_name \o ": closed")

\* C27: in every reachable state of the gateway, every tool name in
\* tool_to_server maps to a server name that has an entry in sessions and
\* in tools_cache, and that tools_cache entry holds a tool of that name.
C27_ToolMapConsistent ==
    \A tool \in DOMAIN tool_to_server :
        LET name == tool_to_server[tool]
        IN  /\ name \in DOMAIN sessions
            /\ name \in DOMAIN tools_cache
            /\ tool \in tools_cache[name]

\* C28: once close_all has returned and until the next connect_server call,
\* every task connect_server ever created has terminated, sessions,
\* tools_cache and tool_to_server are empty, and an execute_tool call made
\* in that period has returned the 'Unknown tool' failure.
C28_ClosedStaysClosed ==
    close_all.pc = "closed" =>
        /\ Running = {}
        /\ DOMAIN sessions = {}
        /\ DOMAIN tools_cache = {}
        /\ DOMAIN tool_to_server = {}
        /\ (execution.closed /\ execution.pc = "returned") =>
                execution.result = Failure("Unknown tool: " \o execution.tool_name)

\* C29: a test_and_enable call has switched its server ON only if the task
\* its own connect_server call created has registered a session: an
\* attempt that failed or timed out leaves the server OFF.
C29_OnOnlyAfterOwnSuccess ==
    \A id \in TaskIds :
        tasks[id].switched = "ON" => tasks[id].registered

\* the process_audio workers that are active: started, not finished and
\* not cancelled
Active == {w \in DOMAIN workers : workers[w] = "running"}

\* a press of V: one more timer has been made
Pressed == Len(timers') = Len(timers) + 1

\* a release timer's callback has run
Released == \E t \in DOMAIN timers : timers[t] = "due" /\ timers'[t] = "done"

\* what one press or one callback does, as C30 states it
C30_Step ==
    /\ (Pressed /\ ~mic_is_recording) =>
            /\ mic_is_recording' /\ streams' = streams + 1
            /\ workers' = workers
    /\ (Pressed /\ mic_is_recording) =>
            /\ UNCHANGED <<mic_is_recording, capture_is_recording, streams, v_key_held,
                           workers, current_processing_task>>
            /\ timers'[release_timer'] = "armed"
            /\ \A t \in DOMAIN timers : timers'[t] # "armed"
    /\ (Released /\ mic_is_recording) =>
            /\ ~mic_is_recording' /\ streams' = 0
            /\ Len(workers') = Len(workers) + 1
            /\ workers'[Len(workers')] = "running"
            /\ current_processing_task' = Len(workers')
            /\ \A w \in DOMAIN workers : workers'[w] # "running"
    /\ (Released /\ ~mic_is_recording) =>
            UNCHANGED <<mic_is_recording, capture_is_recording, streams, v_key_held,
                        workers, current_processing_task>>

\* C30: after any sequence of presses of V and expiries of the release timer
\* at most one process_audio worker is active and at most one recording
\* runs; a press while not recording starts exactly one recording, a
\* further press only re-arms the release timer, the timer's callback while
\* recording stops the recording and starts exactly one worker after
\* cancelling the unfinished earlier one, and a callback while not
\* recording starts nothing.
C30_HoldToSpeak ==
    /\ [](/\ Cardinality(Active) <= 1
          /\ streams = (IF mic_is_recording THEN 1 ELSE 0)
          /\ Active # {} => current_processing_task \in Active)
    /\ [][C30_Step]_vars

\* a second recording has been released while the worker of the first was
\* still running: the first is cancelled, the second is the active one, and
\* a press in between had re-armed the timer
C30_Witness ==
    /\ Len(workers) >= 2
    /\ workers[1] = "cancelled"
    /\ Active = {2}
    /\ \E t \in DOMAIN timers : timers[t] = "stopped"
    /\ ~mic_is_recording

=============================================================================
